---- MODULE Spec2Model ----
(***************************************************************************)
(* Model of pwrdrvr/lambda-throttling.                                     *)
(*                                                                         *)
(* Programs modelled:                                                      *)
(*   - the calibrated adaptive Lambda handler (src/unnamed/part_003),      *)
(*   - the refining adaptive Lambda handler   (src/src/cdk/build.ts),      *)
(*   - the standard / calibration handler     (src/src/monitor-metrics.ts) *)
(*   - the adaptive test driver               (src/unnamed/part_004).      *)
(*                                                                         *)
(* Units.  Date.now() and hrTime() are read in whole milliseconds.  Every   *)
(* CPU time of the model (a process.cpuUsage() reading, a cpuTimeMs, the   *)
(* calibration baseline of a request) is an integer number of tenths of a  *)
(* millisecond: 3.6 ms is 36.  Quotients the code computes in floating     *)
(* point are kept as exact fractions n/d; the non-finite results of a      *)
(* JavaScript division (NaN, +Infinity, -Infinity) are values of their own.*)
(***************************************************************************)
EXTENDS Integers, Sequences, FiniteSets, TLC

(***************************************************************************)
(* Bounds of the model.                                                    *)
(***************************************************************************)
MaxIter == 3
MaxWarmup == 2
MaxCalibration == 2
MaxTestDurationMs == 12
MaxLiveIter == 2

(***************************************************************************)
(* Program constants.                                                      *)
(***************************************************************************)
memoryForOneFullCore == 1769
throttleIntervalMs == 20
defaultTestDurationMs == 5000
defaultCalibrationCpuTime == 36
defaultCalibrationDataSizeKB == 100
defaultBaseDataSizeKB == 100
maxRandomBytes == 2147483647

(***************************************************************************)
(* JavaScript values.                                                      *)
(***************************************************************************)
\* An optional event field: <<>> when the request does not carry it.
None == <<>>
Some(v) == <<v>>

\* JavaScript's  x || d  on a number field: d when x is absent or falsy (0).
OrDefault(opt, d) == IF opt = None \/ opt[1] = 0 THEN d ELSE opt[1]

\* A JavaScript number: a finite fraction n/d (d > 0), NaN, +Infinity or
\* -Infinity; and JSON's null.
Num(n) == [k |-> "num", n |-> n, d |-> 1]
Frac(n, d) == [k |-> "num", n |-> n, d |-> d]
NaN == [k |-> "nan", n |-> 0, d |-> 1]
Infinity == [k |-> "inf", n |-> 0, d |-> 1]
NegInfinity == [k |-> "ninf", n |-> 0, d |-> 1]
Null == [k |-> "null", n |-> 0, d |-> 1]

IsFinite(x) == x.k = "num"
IsInteger(x) == x.k = "num" /\ x.n % x.d = 0

\* JavaScript's  a / b  for integers a >= 0, b >= 0.
JsDiv(a, b) ==
  IF b # 0 THEN Frac(a, b)
  ELSE IF a = 0 THEN NaN
  ELSE Infinity

Max(a, b) == IF a >= b THEN a ELSE b
Min(a, b) == IF a <= b THEN a ELSE b

RECURSIVE SumSeq(_)
SumSeq(s) == IF s = <<>> THEN 0 ELSE Head(s) + SumSeq(Tail(s))

MaxOfSeq(s) == CHOOSE x \in {s[j] : j \in 1..Len(s)} :
                 \A y \in {s[j] : j \in 1..Len(s)} : y <= x
MinOfSeq(s) == CHOOSE x \in {s[j] : j \in 1..Len(s)} :
                 \A y \in {s[j] : j \in 1..Len(s)} : x <= y

\* Math.max(...xs) and Math.min(...xs): -Infinity and +Infinity on no argument.
MathMax(s) == IF s = <<>> THEN NegInfinity ELSE Num(MaxOfSeq(s))
MathMin(s) == IF s = <<>> THEN Infinity ELSE Num(MinOfSeq(s))

\* Mutant: a serialisation that keeps NaN and the infinities.
JsonNumber_KeepsNonFinite(x) == x

\* JSON.stringify followed by JSON.parse on a number: NaN and the infinities
\* are written as null.
JsonNumber(x) == IF IsFinite(x) THEN x ELSE Null

(***************************************************************************)
(* JavaScript numbers as IEEE-754 binary64, for the sums and quotients     *)
(* whose rounding matters.  A finite value >= 0 is the record [m, x]: the  *)
(* binary digits m, most significant first and starting with a 1, times    *)
(* 2^x; zero has no digits.  A binary64 value has mantissaBits digits.     *)
(* The values of the model stay far from the subnormal and overflow range. *)
(***************************************************************************)
mantissaBits == 53
divisionGuardBits == 64

f64Zero == [m |-> <<>>, x |-> 0]

Zeros(k) == [j \in 1..k |-> 0]

\* The binary digits of a natural number; 0 has none.
RECURSIVE Bits(_)
Bits(n) == IF n = 0 THEN <<>> ELSE Append(Bits(n \div 2), n % 2)

RECURSIVE Strip(_)
Strip(m) == IF m = <<>> \/ Head(m) = 1 THEN m ELSE Strip(Tail(m))

\* a + b + c for two digit strings of one length and a carry c: the digits s
\* and the carry out.  The high half is added for the carry that the low half
\* gives.
RECURSIVE AddWithCarry(_, _, _)
AddWithCarry(a, b, c) ==
  IF a = <<>> THEN [s |-> <<>>, c |-> c]
  ELSE IF Len(a) = 1
  THEN [s |-> <<(a[1] + b[1] + c) % 2>>, c |-> (a[1] + b[1] + c) \div 2]
  ELSE LET h == Len(a) \div 2
           lo == AddWithCarry(SubSeq(a, h + 1, Len(a)), SubSeq(b, h + 1, Len(b)), c)
           hi == IF lo.c = 0 THEN AddWithCarry(SubSeq(a, 1, h), SubSeq(b, 1, h), 0)
                 ELSE AddWithCarry(SubSeq(a, 1, h), SubSeq(b, 1, h), 1)
       IN [s |-> hi.s \o lo.s, c |-> hi.c]

\* The digits of a + b: one digit longer than the operands.
AddBits(a, b) == LET r == AddWithCarry(a, b, 0) IN <<r.c>> \o r.s

\* The sum of two values, with every digit kept.
ExactAdd(p, q) ==
  IF p.m = <<>> THEN q
  ELSE IF q.m = <<>> THEN p
  ELSE LET x == Min(p.x, q.x)
           pm == p.m \o Zeros(p.x - x)
           qm == q.m \o Zeros(q.x - x)
           n == Max(Len(pm), Len(qm))
       IN [m |-> Strip(AddBits(Zeros(n - Len(pm)) \o pm, Zeros(n - Len(qm)) \o qm)),
           x |-> x]

\* Long division of a digit string by n > 0 with incoming remainder r < n,
\* the high half first and its remainder into the low half: the quotient's
\* digits (as many as the dividend's) and the remainder.
RECURSIVE LongDiv(_, _, _)
LongDiv(m, n, r) ==
  IF m = <<>> THEN [q |-> <<>>, r |-> r]
  ELSE IF Len(m) = 1
  THEN [q |-> <<(2 * r + m[1]) \div n>>, r |-> (2 * r + m[1]) % n]
  ELSE LET h == Len(m) \div 2
           hi == LongDiv(SubSeq(m, 1, h), n, r)
           lo == LongDiv(SubSeq(m, h + 1, Len(m)), n, hi.r)
       IN [q |-> hi.q \o lo.q, r |-> lo.r]

\* The binary64 value nearest to p, ties to the even mantissa; sticky says
\* that non-zero digits beyond those of p were already dropped.
RoundToNearestEven(p, sticky) ==
  IF p.m = <<>> THEN p
  ELSE IF Len(p.m) <= mantissaBits
  THEN [m |-> p.m \o Zeros(mantissaBits - Len(p.m)),
        x |-> p.x - (mantissaBits - Len(p.m))]
  ELSE LET keep == SubSeq(p.m, 1, mantissaBits)
           x == p.x + Len(p.m) - mantissaBits
           half == p.m[mantissaBits + 1]
           rest == sticky \/ \E j \in (mantissaBits + 2)..Len(p.m) : p.m[j] = 1
           up == half = 1 /\ (rest \/ keep[mantissaBits] = 1)
           s == AddBits(keep, Zeros(mantissaBits - 1) \o <<1>>)
       IN IF ~up THEN [m |-> keep, x |-> x]
          ELSE IF s[1] = 1 THEN [m |-> SubSeq(s, 1, mantissaBits), x |-> x + 1]
          ELSE [m |-> Tail(s), x |-> x]

\* An integer as a binary64 value (exact below 2^53).
f64OfInt(n) == RoundToNearestEven([m |-> Bits(n), x |-> 0], FALSE)

\* a + b
f64Add(a, b) == RoundToNearestEven(ExactAdd(a, b), FALSE)

\* a / n for a binary64 a >= 0 and an integer n >= 0.
f64DivInt(a, n) ==
  IF n = 0 THEN (IF a.m = <<>> THEN NaN ELSE Infinity)
  ELSE IF a.m = <<>> THEN a
  ELSE LET d == LongDiv(a.m \o Zeros(divisionGuardBits), n, 0)
       IN RoundToNearestEven([m |-> Strip(d.q), x |-> a.x - divisionGuardBits], d.r # 0)

\* The product of two values, with every digit kept: p times the high half
\* of q's digits plus p times the low half.
RECURSIVE ExactMul(_, _)
ExactMul(p, q) ==
  IF p.m = <<>> \/ q.m = <<>> THEN f64Zero
  ELSE IF Len(q.m) = 1
  THEN (IF q.m[1] = 1 THEN [m |-> p.m, x |-> p.x + q.x] ELSE f64Zero)
  ELSE LET h == Len(q.m) \div 2
           hi == ExactMul(p, [m |-> SubSeq(q.m, 1, h), x |-> q.x + Len(q.m) - h])
           lo == ExactMul(p, [m |-> SubSeq(q.m, h + 1, Len(q.m)), x |-> q.x])
       IN ExactAdd(hi, lo)

\* a * b
f64Mul(a, b) == RoundToNearestEven(ExactMul(a, b), FALSE)

\* a < b for two digit strings without leading zeros.
LessBits(a, b) ==
  \/ Len(a) < Len(b)
  \/ /\ Len(a) = Len(b)
     /\ \E j \in 1..Len(a) : a[j] < b[j] /\ \A k \in 1..(j - 1) : a[k] = b[k]

\* a - b for digit strings without leading zeros, a >= b: a plus the two's
\* complement of b.
SubBits(a, b) ==
  LET bb == Zeros(Len(a) - Len(b)) \o b
  IN Strip(AddWithCarry(a, [j \in 1..Len(a) |-> 1 - bb[j]], 1).s)

\* Long division of a digit string by the digit string b with incoming
\* remainder r < b: the quotient's digits and the remainder's.
RECURSIVE LongDivBits(_, _, _)
LongDivBits(m, b, r) ==
  IF m = <<>> THEN [q |-> <<>>, r |-> r]
  ELSE IF Len(m) = 1
  THEN LET t == Strip(r \o m)
       IN IF LessBits(t, b) THEN [q |-> <<0>>, r |-> t]
          ELSE [q |-> <<1>>, r |-> SubBits(t, b)]
  ELSE LET h == Len(m) \div 2
           hi == LongDivBits(SubSeq(m, 1, h), b, r)
           lo == LongDivBits(SubSeq(m, h + 1, Len(m)), b, hi.r)
       IN [q |-> hi.q \o lo.q, r |-> lo.r]

\* a / b for values a >= 0 and b > 0.
f64Div(a, b) ==
  IF a.m = <<>> THEN a
  ELSE LET d == LongDivBits(a.m \o Zeros(divisionGuardBits), b.m, <<>>)
       IN RoundToNearestEven([m |-> Strip(d.q), x |-> a.x - divisionGuardBits - b.x],
                             d.r # <<>>)

\* Mutant: the first element is left out of the sum.
RECURSIVE f64Reduce_SkipsFirst(_, _)
f64Reduce_SkipsFirst(sum, xs) ==
  IF Len(xs) <= 1 THEN sum
  ELSE f64Reduce_SkipsFirst(f64Add(sum, xs[2]), <<xs[1]>> \o SubSeq(xs, 3, Len(xs)))

\* xs.reduce((sum, x) => sum + x, 0): the additions from left to right.
RECURSIVE f64Reduce(_, _)
f64Reduce(sum, xs) ==
  IF xs = <<>> THEN sum ELSE f64Reduce(f64Add(sum, Head(xs)), Tail(xs))

\* xs.reduce((sum, x) => sum + x, 0) / xs.length
f64Average(xs) == f64DivInt(f64Reduce(f64Zero, xs), Len(xs))

\* iterationTime of the standard handler: a difference of hrTime() values,
\* here whole milliseconds.
iterationTimeMsBinary64(wall) == f64OfInt(wall)

\* cpuTimeMs = (user + system) / 1000 on whole microseconds, here the
\* tenths of a millisecond divided by 10: the same quotient, rounded once.
cpuTimeMsBinary64(cpu) == f64DivInt(f64OfInt(cpu), 10)

(***************************************************************************)
(* The Adaptive Sizer (pure functions of the handlers' first lines).       *)
(***************************************************************************)
\* The natural number with the binary digits m, most significant first.
RECURSIVE NatOfBits(_)
NatOfBits(m) ==
  IF m = <<>> THEN 0 ELSE 2 * NatOfBits(SubSeq(m, 1, Len(m) - 1)) + m[Len(m)]

\* Math.floor of a binary64 value >= 0: the digits before the binary point.
f64Floor(a) ==
  IF a.x >= 0 THEN NatOfBits(a.m \o Zeros(a.x))
  ELSE IF Len(a.m) + a.x <= 0 THEN 0
  ELSE NatOfBits(SubSeq(a.m, 1, Len(a.m) + a.x))

\* cpuAllocation = memorySize / 1769
cpuAllocationBinary64(mem) == f64DivInt(f64OfInt(mem), memoryForOneFullCore)

\* Mutant: the cut-off between the two safety factors at 0.5 instead of 0.3.
LowCpuShare_CutAtHalf(mem) == 2 * mem < memoryForOneFullCore

\* cpuAllocation < 0.3, with cpuAllocation = memorySize / 1769.
LowCpuShare(mem) == 10 * mem < 3 * memoryForOneFullCore

\* Mutant: one safety factor (0.85) for every CPU share.
safetyFactorPct_Single(mem) == 85

\* safetyFactor of the calibrated handler, in percent (0.55 or 0.85).
safetyFactorPct(mem) == IF LowCpuShare(mem) THEN 55 ELSE 85

\* safetyFactor of the refining handler, in percent (0.9).
refiningSafetyFactorPct == 90

\* targetCpuTimeMs = allowedWorkloadPerInterval * 0.8, in percent.
targetUtilizationPct == 80

\* allowedWorkloadPerInterval = cpuAllocation * throttleIntervalMs * safetyFactor
\* as the fraction allowedNum / allowedDen of a millisecond.
allowedNum(f, mem) ==
  mem * throttleIntervalMs *
    (IF f = "calibrated" THEN safetyFactorPct(mem) ELSE refiningSafetyFactorPct)
allowedDen == memoryForOneFullCore * 100

\* safetyFactor: the literal 0.55 or 0.85.
safetyFactorBinary64(mem) == f64DivInt(f64OfInt(safetyFactorPct(mem)), 100)

\* allowedWorkloadPerInterval = cpuAllocation * throttleIntervalMs * safetyFactor
allowedBinary64(mem) ==
  f64Mul(f64Mul(cpuAllocationBinary64(mem), f64OfInt(throttleIntervalMs)),
         safetyFactorBinary64(mem))

\* (allowedWorkloadPerInterval / calibrationCpuTimeFor100KBMs) * calibrationDataSizeKB
\* as the binary64 value the code computes, the calibration CPU time c in
\* tenths of a millisecond.
calibratedProductBinary64(mem, cpuTimeFor100KB, dataSizeKB) ==
  f64Mul(f64Div(allowedBinary64(mem), cpuTimeMsBinary64(cpuTimeFor100KB)),
         f64OfInt(dataSizeKB))

\* Math.max(1, Math.floor((allowed / calibrationCpuTimeFor100KBMs) * calibrationDataSizeKB)).
\* The exact value of the product is
\*   mem * 20 * pct * size / (1769 * 10 * c);
\* the binary64 product is within seven roundings (a relative 2^-50) of it,
\* nearer than the nearest whole number unless the exact value is whole, so
\* that the floor is that of the exact quotient except where the quotient is
\* whole: there the binary64 product decides (17 / 1.1 * 33 is
\* 509.99999999999994).
calibratedDataSizeKB(mem, cpuTimeFor100KB, dataSizeKB) ==
  LET num == allowedNum("calibrated", mem) * dataSizeKB
      den == memoryForOneFullCore * 10 * cpuTimeFor100KB
  IN IF num % den # 0 THEN Max(1, num \div den)
     ELSE Max(1, f64Floor(calibratedProductBinary64(mem, cpuTimeFor100KB,
                                                    dataSizeKB)))

\* Math.max(1, Math.floor(baseDataSizeKB * cpuAllocation)), the product being
\* the binary64 product of baseDataSizeKB and the rounded quotient
\* memorySize / 1769: it can fall just below a whole number that the exact
\* product reaches (1769 * (128 / 1769) is 127.99999999999999).
\* The binary64 product is within two roundings of the exact value
\* baseDataSizeKB * mem / 1769, nearer than the nearest whole number unless
\* the exact value is whole, and it is the exact value when mem / 1769 is
\* whole (no rounding at all): elsewhere the binary64 product decides.
adaptiveDataSizeKB(mem, baseDataSizeKB) ==
  IF \/ (baseDataSizeKB * mem) % memoryForOneFullCore # 0
     \/ mem % memoryForOneFullCore = 0
  THEN Max(1, (baseDataSizeKB * mem) \div memoryForOneFullCore)
  ELSE Max(1, f64Floor(f64Mul(f64OfInt(baseDataSizeKB),
                              cpuAllocationBinary64(mem))))

\* event.iterations || Math.floor(testDurationMs / throttleIntervalMs)
\* with testDurationMs = event.testDurationMs || 5000.
testDurationMsOf(ev) == OrDefault(ev.testDurationMs, defaultTestDurationMs)
iterationsOf(ev) ==
  OrDefault(ev.iterations, testDurationMsOf(ev) \div throttleIntervalMs)

calibrationCpuTimeOf(ev) ==
  OrDefault(ev.calibrationCpuTimeFor100KBMs, defaultCalibrationCpuTime)
calibrationDataSizeOf(ev) ==
  OrDefault(ev.calibrationDataSizeKB, defaultCalibrationDataSizeKB)
baseDataSizeOf(ev) == OrDefault(ev.baseDataSizeKB, defaultBaseDataSizeKB)

\* The size the first iteration runs with.
initialDataSizeKB(f, mem, ev) ==
  IF f = "calibrated"
  THEN calibratedDataSizeKB(mem, calibrationCpuTimeOf(ev), calibrationDataSizeOf(ev))
  ELSE adaptiveDataSizeKB(mem, baseDataSizeOf(ev))

(***************************************************************************)
(* State of one invocation of a handler, and of one run of the driver.     *)
(***************************************************************************)
VARIABLES
  fn,                      \* the handler deployed: "calibrated" | "refining" | "standard"
  memorySize,              \* AWS_LAMBDA_FUNCTION_MEMORY_SIZE
  event,                   \* the invocation request
  pc,                      \* "Idle" | "Running" | "Sleeping" | "Completed" | "Failed"
  now,                     \* Date.now()
  cpuClock,                \* process.cpuUsage(): user + system of the process, us
  iterations,              \* the iteration count fixed before the loop
  i,                       \* the loop index
  dataSizeKB,              \* calibratedDataSizeKB / adaptiveDataSizeKB in effect
  hasAdaptedDataSize,
  elapsed,                 \* elapsed of the last iteration
  remainingTimeInInterval, \* of the last iteration
  sleeps,                  \* the timers requested so far (their delays)
  results,
  stats,                   \* the statistics computed on completion
  ret,                     \* the handler's return value
  std,                     \* the locals of the standard handler
  driverKind,              \* the driver run: "adaptive" | "standard"
  skipCalibration,         \* --skipCalibration=true (standard driver)
  driverPc,                \* "Start" | "Calibrating" | "Settling" | "Tiers" |
                           \* "InTier" | "Done" | "Exited"
  driverNow,               \* the driver's clock, ms
  inFlight,                \* the Lambda invocations sent and not yet returned
  startedAt,               \* when the last invocation was sent
  settleUntil,             \* when the timer of the pending delay is due
  calibrationResponse,     \* what the calibration invocation came back with
  calibrationData,         \* the value runCalibration() returned
  tierRuns,                \* the tier invocations made so far
  exitCode                 \* the driver's process.exit code, 0 while it runs

handlerVars == <<fn, memorySize, event, pc, now, cpuClock, iterations, i,
                 dataSizeKB, hasAdaptedDataSize, elapsed,
                 remainingTimeInInterval, sleeps, results, stats, ret, std>>

driverVars == <<driverKind, skipCalibration, driverPc, driverNow, inFlight,
                startedAt, settleUntil, calibrationResponse, calibrationData,
                tierRuns, exitCode>>

vars == <<handlerVars, driverVars>>

NoEvent == [testDurationMs |-> None, iterations |-> None,
            calibrationCpuTimeFor100KBMs |-> None,
            calibrationDataSizeKB |-> None, baseDataSizeKB |-> None]

NoResults == [startTime |-> 0, endTime |-> 0, totalWallClockTime |-> 0,
              totalCpuTime |-> 0, totalIterations |-> 0,
              iterationResults |-> <<>>,
              initialDataSizeKB |-> Num(0), finalDataSizeKB |-> Num(0)]

NoStats == [computed |-> FALSE]
NoReturn == [statusCode |-> 0]
NoStd == [envIsCalibration |-> FALSE]
NoResponse == [kind |-> "none", hasBody |-> FALSE, bodyParses |-> FALSE,
               calibrationResults |-> None]

\* Before the handler's first statement.
HandlerIdle ==
  /\ pc = "Idle"
  /\ now = 0
  /\ iterations = 0
  /\ i = 0
  /\ dataSizeKB = Num(0)
  /\ hasAdaptedDataSize = FALSE
  /\ elapsed = 0
  /\ remainingTimeInInterval = 0
  /\ sleeps = <<>>
  /\ results = NoResults
  /\ stats = NoStats
  /\ ret = NoReturn

\* Before runTests() of the driver.
DriverStart ==
  /\ driverPc = "Start"
  /\ driverNow = 0
  /\ inFlight = {}
  /\ startedAt = 0
  /\ settleUntil = 0
  /\ calibrationResponse = NoResponse
  /\ calibrationData = None
  /\ tierRuns = <<>>
  /\ exitCode = 0

\* No driver at work: the handler is invoked on its own.
DriverIdle ==
  /\ driverKind = "adaptive"
  /\ skipCalibration = FALSE
  /\ DriverStart


\* The handler's first statements up to the results object: the sizing, the
\* iteration count, results.startTime.
HandlerStart ==
  /\ fn \in {"calibrated", "refining"}
  /\ pc = "Idle"
  /\ iterations' = iterationsOf(event)
  /\ i' = 0
  /\ dataSizeKB' = Num(initialDataSizeKB(fn, memorySize, event))
  /\ hasAdaptedDataSize' = FALSE
  /\ results' = [NoResults EXCEPT
                   !.startTime = now,
                   !.initialDataSizeKB = Num(initialDataSizeKB(fn, memorySize, event)),
                   !.finalDataSizeKB = Num(initialDataSizeKB(fn, memorySize, event))]
  /\ pc' = "Running"
  /\ UNCHANGED driverVars
  /\ UNCHANGED <<fn, memorySize, event, now, cpuClock, elapsed,
                 remainingTimeInInterval, sleeps, stats, ret, std>>

(***************************************************************************)
(* The iteration loop of the adaptive handlers.                            *)
(***************************************************************************)
\* Mutant: the normalisation of a full quantum to 0 left out.
remainingTime_NoNormalise(e) ==
  IF e < throttleIntervalMs THEN throttleIntervalMs - e
  ELSE throttleIntervalMs - (e % throttleIntervalMs)

\* Mutant: no wait to the next boundary after an iteration that overran.
remainingTime_NoModulo(e) ==
  IF e < throttleIntervalMs THEN throttleIntervalMs - e ELSE 0

\* remainingTimeInInterval for an iteration that took e ms.
remainingTime(e) ==
  IF e < throttleIntervalMs
  THEN throttleIntervalMs - e
  ELSE IF throttleIntervalMs - (e % throttleIntervalMs) = throttleIntervalMs
       THEN 0
       ELSE throttleIntervalMs - (e % throttleIntervalMs)

\* cpuTimeRatio = targetCpuTimeMs / cpuTimeMs as the fraction
\* ratioNum / ratioDen, for a CPU time of cpu tenths of a millisecond:
\* (mem/1769 * 20 * 0.9 * 0.8) / (cpu/10) = mem * 144 / (1769 * cpu).
ratioNum(mem) == (allowedNum("refining", mem) * targetUtilizationPct) \div 1000
ratioDen(cpu) == memoryForOneFullCore * cpu

\* cpuTimeRatio < 0.7 || cpuTimeRatio > 1.3; a CPU time of 0 makes the ratio
\* +Infinity.
needsAdaptation(mem, cpu) ==
  \/ cpu = 0
  \/ 10 * ratioNum(mem) < 7 * ratioDen(cpu)
  \/ 10 * ratioNum(mem) > 13 * ratioDen(cpu)

\* targetCpuTimeMs = allowedWorkloadPerInterval * 0.8 of the refining handler,
\* with allowedWorkloadPerInterval = cpuAllocation * throttleIntervalMs * 0.9,
\* as the binary64 value the code computes.
targetCpuTimeMsBinary64(mem) ==
  f64Mul(f64Mul(f64Mul(cpuAllocationBinary64(mem), f64OfInt(throttleIntervalMs)),
                f64DivInt(f64OfInt(refiningSafetyFactorPct), 100)),
         f64DivInt(f64OfInt(targetUtilizationPct), 100))

\* cpuTimeRatio = targetCpuTimeMs / cpuTimeMs as the binary64 value.
cpuTimeRatioBinary64(mem, cpu) ==
  f64Div(targetCpuTimeMsBinary64(mem), cpuTimeMsBinary64(cpu))

\* Math.max(1, Math.floor(adaptiveDataSizeKB * cpuTimeRatio)), the product
\* being the binary64 product; a CPU time of 0 makes it +Infinity.
\* The exact value of the product is size * ratioNum / ratioDen; the binary64
\* product is within nine roundings of it, nearer than the nearest whole
\* number unless the exact value is whole: only there does the binary64
\* product decide.
newDataSizeKB(size, mem, cpu) ==
  IF cpu = 0 THEN Infinity
  ELSE IF (size * ratioNum(mem)) % ratioDen(cpu) # 0
  THEN Num(Max(1, (size * ratioNum(mem)) \div ratioDen(cpu)))
  ELSE Num(Max(1, f64Floor(f64Mul(f64OfInt(size),
                                  cpuTimeRatioBinary64(mem, cpu)))))

\* The largest size in KB whose random data, deflated, is still at most
\* 2^31 - 1 bytes long: random data does not compress, zlib stores it and adds
\* about 5 bytes for every 16 KB (some 655200 bytes at this size, varying by
\* a few bytes with the data; at 2096513 KB the output is some 850 bytes too
\* long).
maxDeflatableKB == 2096512

\* performWork(size): crypto.randomBytes(size * 1024) accepts
\* 0 <= size * 1024 <= 2^31 - 1 and throws otherwise; hash.update(compressed)
\* throws when the deflated random data is longer than 2^31 - 1 bytes.
workloadRuns(size) ==
  /\ IsFinite(size)
  /\ size.n >= 0
  /\ size.n <= maxDeflatableKB
  /\ size.n * 1024 <= maxRandomBytes

\* What one execution of performWork can take: wall-clock ms, CPU time in
\* tenths of a ms, and the ms that pass between the two readings of Date.now()
\* after the work (lines 96 and 108).
WorkOutcomes ==
  { [wall |-> 0,  cpu |-> 0,   delay |-> 0],
    [wall |-> 12, cpu |-> 120, delay |-> 0],
    [wall |-> 19, cpu |-> 10,  delay |-> 1],
    [wall |-> 22, cpu |-> 200, delay |-> 0],
    [wall |-> 30, cpu |-> 250, delay |-> 0],
    [wall |-> 35, cpu |-> 10,  delay |-> 0],
    [wall |-> 40, cpu |-> 120, delay |-> 0] }

\* How late a timer may fire, in ms.
SleepJitter == {0, 1}

\* Mutant: a wall time above the quantum is recorded as the quantum.
iterationRecord_ClipsToQuantum(o) ==
  [iteration |-> i + 1, wallClockTimeMs |-> Min(o.wall, throttleIntervalMs),
   cpuTimeMs |-> o.cpu, dataSizeKB |-> dataSizeKB,
   startTime |-> now - results.startTime]

\* Mutant: the records are numbered from 0.
iterationRecord_NumberedFromZero(o) ==
  IF fn = "calibrated"
  THEN [iteration |-> i, wallClockTimeMs |-> o.wall, cpuTimeMs |-> o.cpu,
        startTime |-> now - results.startTime]
  ELSE [iteration |-> i, wallClockTimeMs |-> o.wall, cpuTimeMs |-> o.cpu,
        dataSizeKB |-> dataSizeKB, startTime |-> now - results.startTime]

\* results.iterationResults.push({ iteration, wallClockTimeMs, cpuTimeMs, ... })
iterationRecord(o) ==
  IF fn = "calibrated"
  THEN [iteration |-> i + 1, wallClockTimeMs |-> o.wall, cpuTimeMs |-> o.cpu,
        startTime |-> now - results.startTime]
  ELSE [iteration |-> i + 1, wallClockTimeMs |-> o.wall, cpuTimeMs |-> o.cpu,
        dataSizeKB |-> dataSizeKB, startTime |-> now - results.startTime]

\* Mutant: the loop also sleeps after its last iteration.
shouldSleep_AlsoAfterLast(idx, n, remaining) == remaining > 0

\* if (i < iterations - 1 && remainingTimeInInterval > 0)
shouldSleep(idx, n, remaining) == idx < n - 1 /\ remaining > 0

\* Mutant: the refinement is tried after every iteration.
mayAdapt_AnyIteration(f, idx, adapted) == f = "refining"

\* if (i === 0 && !hasAdaptedDataSize), which only the refining handler has.
mayAdapt(f, idx, adapted) == f = "refining" /\ idx = 0 /\ ~adapted

\* One pass through the loop body, up to the await of the sleep (or, when no
\* sleep is requested, up to the loop test).
IterateWith(outcomes) ==
  /\ fn \in {"calibrated", "refining"}
  /\ pc = "Running"
  /\ i < iterations
  /\ workloadRuns(dataSizeKB)
  /\ \E o \in outcomes :
       LET adapt == mayAdapt(fn, i, hasAdaptedDataSize)
                    /\ needsAdaptation(memorySize, o.cpu)
           size == IF adapt THEN newDataSizeKB(dataSizeKB.n, memorySize, o.cpu)
                   ELSE dataSizeKB
           e == o.wall + o.delay
           willSleep == shouldSleep(i, iterations, remainingTime(e))
       IN /\ results' = [results EXCEPT
                           !.totalIterations = @ + 1,
                           !.iterationResults = Append(@, iterationRecord(o)),
                           !.finalDataSizeKB = IF adapt THEN size ELSE @]
          /\ dataSizeKB' = size
          /\ hasAdaptedDataSize' = (hasAdaptedDataSize \/ adapt)
          /\ elapsed' = e
          /\ remainingTimeInInterval' = remainingTime(e)
          /\ now' = now + e
          /\ cpuClock' = cpuClock + o.cpu
          /\ sleeps' = IF willSleep THEN Append(sleeps, remainingTime(e)) ELSE sleeps
          /\ pc' = IF willSleep THEN "Sleeping" ELSE "Running"
          /\ i' = IF willSleep THEN i ELSE i + 1
  /\ UNCHANGED driverVars
  /\ UNCHANGED <<fn, memorySize, event, iterations, stats, ret, std>>

Iterate == IterateWith(WorkOutcomes)

\* performWork throws (randomBytes rejects the size): the handler has no
\* try/catch, the invocation fails.
WorkloadFails ==
  /\ fn \in {"calibrated", "refining"}
  /\ pc = "Running"
  /\ i < iterations
  /\ ~workloadRuns(dataSizeKB)
  /\ pc' = "Failed"
  /\ UNCHANGED driverVars
  /\ UNCHANGED <<fn, memorySize, event, now, cpuClock, iterations, i,
                 dataSizeKB, hasAdaptedDataSize, elapsed,
                 remainingTimeInInterval, sleeps, results, stats, ret, std>>

\* Mutant: the loop index is not advanced after the sleep.
Wake_Retries ==
  /\ fn \in {"calibrated", "refining"}
  /\ pc = "Sleeping"
  /\ \E j \in SleepJitter : now' = now + remainingTimeInInterval + j
  /\ i' = i
  /\ pc' = "Running"
  /\ UNCHANGED driverVars
  /\ UNCHANGED <<fn, memorySize, event, cpuClock, iterations, dataSizeKB,
                 hasAdaptedDataSize, elapsed, remainingTimeInInterval, sleeps,
                 results, stats, ret, std>>

\* The timer of the sleep fires, as late as one of jitter says: the loop goes
\* on with the next iteration.
WakeWith(jitter) ==
  /\ fn \in {"calibrated", "refining"}
  /\ pc = "Sleeping"
  /\ \E j \in jitter : now' = now + remainingTimeInInterval + j
  /\ i' = i + 1
  /\ pc' = "Running"
  /\ UNCHANGED driverVars
  /\ UNCHANGED <<fn, memorySize, event, cpuClock, iterations, dataSizeKB,
                 hasAdaptedDataSize, elapsed, remainingTimeInInterval, sleeps,
                 results, stats, ret, std>>

Wake == WakeWith(SleepJitter)

\* Mutant: the threshold compared with >= instead of >.
RECURSIVE countThrottled_AtLeast(_)
countThrottled_AtLeast(ts) ==
  IF ts = <<>> THEN 0
  ELSE (IF 2 * Head(ts) >= 3 * throttleIntervalMs THEN 1 ELSE 0)
       + countThrottled_AtLeast(Tail(ts))

\* wallClockTimes.filter(t => t > throttleIntervalMs * 1.5).length
RECURSIVE countThrottled(_)
countThrottled(ts) ==
  IF ts = <<>> THEN 0
  ELSE (IF 2 * Head(ts) > 3 * throttleIntervalMs THEN 1 ELSE 0)
       + countThrottled(Tail(ts))

\* Mutant: the utilisation as a fraction of 1, not in percent.
utilizationBinary64_Fraction(avgCpuTime, allowed) == f64Div(avgCpuTime, allowed)

\* cpuUtilizationPercent = (avgCpuTime / allowedWorkloadPerInterval) * 100
utilizationBinary64(avgCpuTime, allowed) ==
  f64Mul(f64Div(avgCpuTime, allowed), f64OfInt(100))

\* avgCpuTime, allowedWorkloadPerInterval and cpuUtilizationPercent of the
\* calibrated handler as the JavaScript numbers the code computes, for the
\* records' cpuTimeMs in tenths of a millisecond.
statsBinary64(mem, recs) ==
  LET cpuTimes == [r \in 1..Len(recs) |-> cpuTimeMsBinary64(recs[r].cpuTimeMs)]
      avgCpuTime == f64Average(cpuTimes)
  IN [avgCpuTime |-> avgCpuTime,
      allowedCpuTimePerInterval |-> allowedBinary64(mem),
      cpuUtilizationPercent |->
        IF recs = <<>> THEN NaN
        ELSE utilizationBinary64(avgCpuTime, allowedBinary64(mem))]

\* The statistics of the handler's last lines, from the iteration records.
\* cpuUtilizationPercent = avgCpuTime / allowedWorkloadPerInterval * 100
\*   = (sum/(10 n)) / (allowedNum/allowedDen) * 100
\*   = (sum * (allowedDen/10) * 100) / (n * allowedNum).
computeStats(f, mem, recs, size) ==
  LET cpuTimes == [r \in 1..Len(recs) |-> recs[r].cpuTimeMs]
      wallClockTimes == [r \in 1..Len(recs) |-> recs[r].wallClockTimeMs]
      avgCpu == JsDiv(SumSeq(cpuTimes), Len(cpuTimes))
  IN [computed |-> TRUE,
      avgCpuTime |-> avgCpu,
      maxCpuTime |-> MathMax(cpuTimes),
      minCpuTime |-> MathMin(cpuTimes),
      avgWallClockTime |-> JsDiv(SumSeq(wallClockTimes), Len(wallClockTimes)),
      maxWallClockTime |-> MathMax(wallClockTimes),
      minWallClockTime |-> MathMin(wallClockTimes),
      potentialThrottlingEvents |-> countThrottled(wallClockTimes),
      allowedCpuTimePerInterval |-> Frac(allowedNum(f, mem), allowedDen),
      cpuUtilizationPercent |->
        IF IsFinite(avgCpu)
        THEN Frac(avgCpu.n * (allowedDen \div 10) * 100,
                  avgCpu.d * allowedNum(f, mem))
        ELSE NaN,
      calibratedDataSizeKB |-> size]

\* JSON.stringify of the statistics, parsed back.  The refining handler
\* reports the first seven only.
jsonStats(f, st) ==
  IF f = "refining"
  THEN [avgCpuTime |-> JsonNumber(st.avgCpuTime),
        maxCpuTime |-> JsonNumber(st.maxCpuTime),
        minCpuTime |-> JsonNumber(st.minCpuTime),
        avgWallClockTime |-> JsonNumber(st.avgWallClockTime),
        maxWallClockTime |-> JsonNumber(st.maxWallClockTime),
        minWallClockTime |-> JsonNumber(st.minWallClockTime),
        potentialThrottlingEvents |-> st.potentialThrottlingEvents]
  ELSE
  [avgCpuTime |-> JsonNumber(st.avgCpuTime),
   maxCpuTime |-> JsonNumber(st.maxCpuTime),
   minCpuTime |-> JsonNumber(st.minCpuTime),
   avgWallClockTime |-> JsonNumber(st.avgWallClockTime),
   maxWallClockTime |-> JsonNumber(st.maxWallClockTime),
   minWallClockTime |-> JsonNumber(st.minWallClockTime),
   potentialThrottlingEvents |-> st.potentialThrottlingEvents,
   allowedCpuTimePerInterval |-> JsonNumber(st.allowedCpuTimePerInterval),
   cpuUtilizationPercent |-> JsonNumber(st.cpuUtilizationPercent),
   calibratedDataSizeKB |-> JsonNumber(st.calibratedDataSizeKB)]

\* JSON.stringify({...results, stats}), parsed back: the calibrated handler's
\* results carry calibratedDataSizeKB, the refining handler's initialDataSizeKB
\* and finalDataSizeKB.
responseBody(f, res, st) ==
  IF f = "refining"
  THEN [totalIterations |-> res.totalIterations,
        totalCpuTime |-> res.totalCpuTime,
        totalWallClockTime |-> res.totalWallClockTime,
        initialDataSizeKB |-> JsonNumber(res.initialDataSizeKB),
        finalDataSizeKB |-> JsonNumber(res.finalDataSizeKB),
        iterationResults |-> res.iterationResults,
        stats |-> jsonStats(f, st)]
  ELSE [totalIterations |-> res.totalIterations,
        totalCpuTime |-> res.totalCpuTime,
        totalWallClockTime |-> res.totalWallClockTime,
        calibratedDataSizeKB |-> JsonNumber(st.calibratedDataSizeKB),
        iterationResults |-> res.iterationResults,
        stats |-> jsonStats(f, st)]

\* The lines after the loop: the totals, the statistics, the return value.
Complete ==
  /\ fn \in {"calibrated", "refining"}
  /\ pc = "Running"
  /\ ~(i < iterations)
  /\ LET st == computeStats(fn, memorySize, results.iterationResults, dataSizeKB)
         res == [results EXCEPT !.endTime = now,
                                !.totalWallClockTime = now - results.startTime,
                                !.totalCpuTime = cpuClock]
     IN /\ results' = res
        /\ stats' = st
        /\ ret' = [statusCode |-> 200, body |-> responseBody(fn, res, st)]
  /\ pc' = "Completed"
  /\ UNCHANGED driverVars
  /\ UNCHANGED <<fn, memorySize, event, now, cpuClock, iterations, i,
                 dataSizeKB, hasAdaptedDataSize, elapsed,
                 remainingTimeInInterval, sleeps, std>>

(***************************************************************************)
(* The standard handler: the throttling test and the calibration run.      *)
(***************************************************************************)
defaultCalibrationDurationMs == 10000
defaultLogThreshold == 5
defaultStartLogBuffer == 10
defaultDataSize == 102400
defaultWarmupIterations == 50
defaultCalibrationIterations == 500

adaptiveVars == <<iterations, i, dataSizeKB, hasAdaptedDataSize, elapsed,
                  remainingTimeInInterval, sleeps, stats>>

NoStdEvent == [isCalibration |-> None, testDurationMs |-> None,
               logThreshold |-> None, startLogBuffer |-> None,
               dataSize |-> None, warmupIterations |-> None,
               calibrationIterations |-> None,
               baselineIterationTimeMs |-> None,
               baselineCpuTimePerIterationMs |-> None]

\* process.env.IS_CALIBRATION === 'true' || event.isCalibration === true
isCalibrationOf(env, ev) == env \/ ev.isCalibration = Some(TRUE)

\* isCalibration ? (event.warmupIterations || 50) : 0, and likewise 500.
warmupIterationsOf(env, ev) ==
  IF isCalibrationOf(env, ev)
  THEN OrDefault(ev.warmupIterations, defaultWarmupIterations) ELSE 0
calibrationIterationsOf(env, ev) ==
  IF isCalibrationOf(env, ev)
  THEN OrDefault(ev.calibrationIterations, defaultCalibrationIterations) ELSE 0
stdTestDurationMsOf(env, ev) ==
  OrDefault(ev.testDurationMs,
            IF isCalibrationOf(env, ev) THEN defaultCalibrationDurationMs
            ELSE defaultTestDurationMs)

\* The parameters and the first readings of the clocks (lines 120-200).
StdStart ==
  /\ fn = "standard"
  /\ pc = "Idle"
  /\ LET cal == isCalibrationOf(std.envIsCalibration, event)
     IN /\ std' = [envIsCalibration |-> std.envIsCalibration,
                   isCalibration |-> cal,
                   testDurationMs |-> stdTestDurationMsOf(std.envIsCalibration, event),
                   logThreshold |-> OrDefault(event.logThreshold, defaultLogThreshold),
                   startLogBuffer |-> OrDefault(event.startLogBuffer, defaultStartLogBuffer),
                   dataSize |-> OrDefault(event.dataSize, defaultDataSize),
                   warmupIterations |-> warmupIterationsOf(std.envIsCalibration, event),
                   calibrationIterations |-> calibrationIterationsOf(std.envIsCalibration, event),
                   baselineIterationTimeMs |-> OrDefault(event.baselineIterationTimeMs, 0),
                   baselineCpuTimePerIterationMs |->
                     OrDefault(event.baselineCpuTimePerIterationMs, 0),
                   startUsage |-> cpuClock,
                   lastCheckTime |-> now,
                   startRealTime |-> now,
                   lastIterationCpuTime |-> 0,
                   warmupComplete |-> FALSE,
                   warmups |-> 0,
                   calibrationData |-> <<>>,
                   averages |-> None,
                   elapsedSinceLastCheck |-> 0,
                   isThrottled |-> FALSE]
        /\ results' = [startTime |-> now, endTime |-> 0, totalWallClockTime |-> 0,
                       totalCpuTime |-> 0, throttlingRatio |-> Num(0),
                       cpuTimeUsed |-> 0, totalIterations |-> 0,
                       throttlingEvents |-> <<>>,
                       isCalibration |-> cal,
                       calibrationResults |->
                         IF cal
                         THEN Some([averageIterationTimeMs |-> Num(0),
                                    averageCpuTimePerIterationMs |-> Num(0),
                                    totalWarmupIterations |->
                                      warmupIterationsOf(std.envIsCalibration, event),
                                    totalCalibrationIterations |->
                                      calibrationIterationsOf(std.envIsCalibration, event)])
                         ELSE None,
                       baselineIterationTimeMs |-> OrDefault(event.baselineIterationTimeMs, 0),
                       baselineCpuTimePerIterationMs |->
                         OrDefault(event.baselineCpuTimePerIterationMs, 0),
                       memorySize |-> memorySize]
        /\ pc' = IF cal THEN "Warmup" ELSE "Testing"
  /\ UNCHANGED driverVars
  /\ UNCHANGED <<fn, memorySize, event, now, cpuClock, ret>>
  /\ UNCHANGED adaptiveVars

\* What one burnCpu() of the reference size can take: wall-clock ms and CPU
\* time in tenths of a ms.
BurnOutcomes ==
  { [wall |-> 3, cpu |-> 30], [wall |-> 4, cpu |-> 36], [wall |-> 6, cpu |-> 0],
    [wall |-> 12, cpu |-> 40], [wall |-> 20, cpu |-> 36] }

CalibrationOutcomes ==
  { [wall |-> 3, cpu |-> 30], [wall |-> 4, cpu |-> 36], [wall |-> 5, cpu |-> 41],
    [wall |-> 6, cpu |-> 40] }

\* Mutant: the warm-up executions are counted in totalIterations.
StdWarmup_Counted ==
  /\ fn = "standard"
  /\ pc = "Warmup"
  /\ std.warmups < std.warmupIterations
  /\ \E o \in CalibrationOutcomes :
       /\ now' = now + o.wall
       /\ cpuClock' = cpuClock + o.cpu
  /\ std' = [std EXCEPT !.warmups = @ + 1]
  /\ results' = [results EXCEPT !.totalIterations = @ + 1]
  /\ UNCHANGED driverVars
  /\ UNCHANGED <<fn, memorySize, event, pc, ret>>
  /\ UNCHANGED adaptiveVars

\* One burnCpu() of the warm-up loop: nothing is recorded.
StdWarmup ==
  /\ fn = "standard"
  /\ pc = "Warmup"
  /\ std.warmups < std.warmupIterations
  /\ \E o \in CalibrationOutcomes :
       /\ now' = now + o.wall
       /\ cpuClock' = cpuClock + o.cpu
  /\ std' = [std EXCEPT !.warmups = @ + 1]
  /\ UNCHANGED driverVars
  /\ UNCHANGED <<fn, memorySize, event, pc, results, ret>>
  /\ UNCHANGED adaptiveVars

\* The warm-up loop is over: the trackers are reset (lines 213-219).
StdWarmupDone ==
  /\ fn = "standard"
  /\ pc = "Warmup"
  /\ ~(std.warmups < std.warmupIterations)
  /\ std' = [std EXCEPT !.warmupComplete = TRUE,
                         !.lastCheckTime = now,
                         !.lastIterationCpuTime = 0]
  /\ pc' = "Calibrating"
  /\ UNCHANGED driverVars
  /\ UNCHANGED <<fn, memorySize, event, now, cpuClock, results, ret>>
  /\ UNCHANGED adaptiveVars

\* One measured iteration of the calibration loop (lines 226-246).
StdCalibrate ==
  /\ fn = "standard"
  /\ pc = "Calibrating"
  /\ Len(std.calibrationData) < std.calibrationIterations
  /\ \E o \in CalibrationOutcomes :
       /\ now' = now + o.wall
       /\ cpuClock' = cpuClock + o.cpu
       /\ std' = [std EXCEPT !.calibrationData =
                     Append(@, [iterationTimeMs |-> o.wall, cpuTimeMs |-> o.cpu])]
  /\ results' = [results EXCEPT !.totalIterations = @ + 1]
  /\ UNCHANGED driverVars
  /\ UNCHANGED <<fn, memorySize, event, pc, ret>>
  /\ UNCHANGED adaptiveVars

\* The two averages as JavaScript computes them on the recorded samples.
averagesBinary64(data) ==
  [iterationTimeMs |->
     f64Average([r \in 1..Len(data) |-> iterationTimeMsBinary64(data[r].iterationTimeMs)]),
   cpuTimeMs |->
     f64Average([r \in 1..Len(data) |-> cpuTimeMsBinary64(data[r].cpuTimeMs)])]

\* The averages over the samples (lines 249-256): results carries them as
\* exact fractions, std.averages as the binary64 values the code computes.
StdCalibrationDone ==
  /\ fn = "standard"
  /\ pc = "Calibrating"
  /\ ~(Len(std.calibrationData) < std.calibrationIterations)
  /\ LET data == std.calibrationData
         totalIterationTime == SumSeq([r \in 1..Len(data) |-> data[r].iterationTimeMs])
         totalCpuTime == SumSeq([r \in 1..Len(data) |-> data[r].cpuTimeMs])
     IN results' = [results EXCEPT !.calibrationResults =
                      IF @ = None THEN @
                      ELSE Some([@[1] EXCEPT
                             !.averageIterationTimeMs = JsDiv(totalIterationTime, Len(data)),
                             !.averageCpuTimePerIterationMs = JsDiv(totalCpuTime, Len(data))])]
  /\ std' = [std EXCEPT !.averages = Some(averagesBinary64(std.calibrationData))]
  /\ pc' = "Finishing"
  /\ UNCHANGED driverVars
  /\ UNCHANGED <<fn, memorySize, event, now, cpuClock, ret>>
  /\ UNCHANGED adaptiveVars

\* Mutant: only the comparison with the baseline decides what is recorded.
recordsEvent_BaselineOnly(e, sinceStart, logThreshold, startLogBuffer, throttled) ==
  throttled

\* isThrottled: throttleFactor = elapsedSinceLastCheck / baseline > 1.5, when a
\* baseline > 0 was supplied.
isThrottledOf(e, baseline) == baseline > 0 /\ 2 * e > 3 * baseline

\* (elapsedSinceLastCheck > logThreshold && timeElapsedWallClock > startLogBuffer)
\*   || isThrottled
recordsEvent(e, sinceStart, logThreshold, startLogBuffer, throttled) ==
  (e > logThreshold /\ sinceStart > startLogBuffer) \/ throttled

\* One pass through the loop of the throttling test (lines 269-316).
StdIterate ==
  /\ fn = "standard"
  /\ pc = "Testing"
  /\ now - std.startRealTime < std.testDurationMs
  /\ \E o \in BurnOutcomes :
       LET t == now + o.wall
           e == t - std.lastCheckTime
           cpuTimeUsed == (cpuClock + o.cpu) - std.startUsage
           timeElapsedWallClock == t - std.startRealTime
           throttled == isThrottledOf(e, std.baselineIterationTimeMs)
       IN /\ now' = t
          /\ cpuClock' = cpuClock + o.cpu
          /\ results' = [results EXCEPT
                           !.totalIterations = @ + 1,
                           !.throttlingEvents =
                             IF recordsEvent(e, timeElapsedWallClock, std.logThreshold,
                                             std.startLogBuffer, throttled)
                             THEN Append(@, [wallClockTime |-> timeElapsedWallClock,
                                             detectedDelayMs |-> e,
                                             timeFromStart |-> timeElapsedWallClock,
                                             cpuTimeUsed |-> cpuTimeUsed])
                             ELSE @]
          /\ std' = [std EXCEPT
                       !.elapsedSinceLastCheck = e,
                       !.isThrottled = throttled,
                       !.lastIterationCpuTime =
                         IF std.baselineIterationTimeMs > 0 THEN cpuTimeUsed ELSE @,
                       !.lastCheckTime = t]
  /\ UNCHANGED driverVars
  /\ UNCHANGED <<fn, memorySize, event, pc, ret>>
  /\ UNCHANGED adaptiveVars

\* 1 - cpuTimeUsed / totalWallClockTime, the CPU time in tenths of a ms.
throttlingRatioOf(cpu, wall) ==
  IF wall # 0 THEN Frac(10 * wall - cpu, 10 * wall)
  ELSE IF cpu = 0 THEN NaN
  ELSE NegInfinity

jsonCalibrationResults(c) ==
  IF c = None THEN None
  ELSE Some([c[1] EXCEPT
         !.averageIterationTimeMs = JsonNumber(@),
         !.averageCpuTimePerIterationMs = JsonNumber(@)])

\* The final lines of the standard handler (lines 319-345).
StdComplete ==
  /\ fn = "standard"
  /\ \/ pc = "Finishing"
     \/ pc = "Testing" /\ ~(now - std.startRealTime < std.testDurationMs)
  /\ LET used == cpuClock - std.startUsage
         res == [results EXCEPT
                   !.cpuTimeUsed = used,
                   !.endTime = now,
                   !.totalWallClockTime = now - results.startTime,
                   !.totalCpuTime = used,
                   !.throttlingRatio = throttlingRatioOf(used, now - results.startTime)]
     IN /\ results' = res
        /\ ret' = [statusCode |-> 200,
                   body |-> [res EXCEPT
                     !.throttlingRatio = JsonNumber(@),
                     !.calibrationResults = jsonCalibrationResults(@)]]
  /\ pc' = "Completed"
  /\ UNCHANGED driverVars
  /\ UNCHANGED <<fn, memorySize, event, now, cpuClock, std>>
  /\ UNCHANGED adaptiveVars

(***************************************************************************)
(* The adaptive test driver (runTests with calibration).                   *)
(***************************************************************************)
\* const memorySizes = [128, 256, 512, 1024, 1769]
memorySizes == <<128, 256, 512, 1024, 1769>>

\* const testDurationMs = 10000; iterations = Math.floor(testDurationMs / 20)
driverTestDurationMs == 10000
driverIterations == driverTestDurationMs \div 20

\* What lambda.invoke() can come back with.  kind "throws": the SDK call rejects
\* or the payload does not parse; "status": a StatusCode other than 200; "ok":
\* StatusCode 200 and a parsed payload.  The payload has a body or not (a function
\* error has none); the body parses as JSON or not; it holds calibrationResults
\* (None for null or absent) whose averageCpuTimePerIterationMs is a number of
\* tenths of a millisecond (None for null, which is what JSON makes of NaN).
Response(kind, hasBody, bodyParses, cal) ==
  [kind |-> kind, hasBody |-> hasBody, bodyParses |-> bodyParses,
   calibrationResults |-> cal]

CalibrationAverages == {None, Some(0), Some(18), Some(36), Some(40)}

CalibrationResponses ==
  { Response("throws", FALSE, FALSE, None),
    Response("status", FALSE, FALSE, None),
    Response("ok", FALSE, FALSE, None),
    Response("ok", TRUE, FALSE, None),
    Response("ok", TRUE, TRUE, None) }
  \cup
  { Response("ok", TRUE, TRUE, Some([averageCpuTimePerIterationMs |-> a])) :
      a \in CalibrationAverages }

\* Mutant: a fallback that leaves the baseline at zero.
fallbackCalibrationData_Zero ==
  [cpuTimeFor100KBMs |-> 0, baseDataSizeKB |-> defaultCalibrationDataSizeKB]

\* { cpuTimeFor100KBMs: 3.6, baseDataSizeKB: 100 }
fallbackCalibrationData ==
  [cpuTimeFor100KBMs |-> defaultCalibrationCpuTime,
   baseDataSizeKB |-> defaultCalibrationDataSizeKB]

\* invokeLambda() throws on a rejected call or a StatusCode other than 200.
invokeThrows(r) == r.kind \in {"throws", "status"}

\* runCalibration(): everything that throws inside the try (the invocation, the
\* parse of the body, the read of a property of an undefined body, toFixed on a
\* null average) ends in the catch, which returns the fallback; so does a body
\* without calibrationResults.
runCalibrationOf(r) ==
  IF invokeThrows(r) THEN fallbackCalibrationData
  ELSE IF ~r.hasBody \/ ~r.bodyParses THEN fallbackCalibrationData
  ELSE IF r.calibrationResults = None THEN fallbackCalibrationData
  ELSE IF r.calibrationResults[1].averageCpuTimePerIterationMs = None
       THEN fallbackCalibrationData
  ELSE [cpuTimeFor100KBMs |-> r.calibrationResults[1].averageCpuTimePerIterationMs[1],
        baseDataSizeKB |-> 100]

\* How long an invocation takes to come back, ms.
InvokeDurations == {5000}

\* The invocations: the calibration function and the function of a tier.
calibrationInvocation == [function |-> "calibration", memorySize |-> 3000]
tierInvocation(mem) == [function |-> "tier", memorySize |-> mem]

\* runCalibration() sends the invocation and awaits it.
StartCalibration ==
  /\ driverKind = "adaptive"
  /\ driverPc = "Start"
  /\ inFlight' = inFlight \cup {calibrationInvocation}
  /\ startedAt' = driverNow
  /\ driverPc' = "Calibrating"
  /\ UNCHANGED <<driverKind, skipCalibration, driverNow, settleUntil,
                 calibrationResponse, calibrationData, tierRuns, exitCode>>
  /\ UNCHANGED handlerVars

\* const calibrationData = await runCalibration(): the invocation comes back.
RunCalibration ==
  /\ driverKind = "adaptive"
  /\ driverPc = "Calibrating"
  /\ \E r \in CalibrationResponses :
       /\ calibrationResponse' = r
       /\ calibrationData' = Some(runCalibrationOf(r))
  /\ \E d \in InvokeDurations : driverNow' = driverNow + d
  /\ inFlight' = inFlight \ {calibrationInvocation}
  /\ driverPc' = "Tiers"
  /\ UNCHANGED <<driverKind, skipCalibration, startedAt, settleUntil, tierRuns, exitCode>>
  /\ UNCHANGED handlerVars

\* Mutant: a payload that leaves the calibration out.
tierPayload_NoCalibration(cd) ==
  [NoEvent EXCEPT !.testDurationMs = Some(driverTestDurationMs),
                  !.iterations = Some(driverIterations)]

\* The payload of runTestForMemorySizeWithCalibration().
tierPayload(cd) ==
  [NoEvent EXCEPT !.testDurationMs = Some(driverTestDurationMs),
                  !.iterations = Some(driverIterations),
                  !.calibrationCpuTimeFor100KBMs = Some(cd.cpuTimeFor100KBMs),
                  !.calibrationDataSizeKB = Some(cd.baseDataSizeKB)]

\* What the invocation of a tier can come back with: a rejected call, a status
\* other than 200, a function error (no body), or the handler's result.
\* What the invocation of a tier can give: a rejected call, a StatusCode other
\* than 200, StatusCode 200 with a payload without body or with the body of
\* the handler's result, and StatusCode 200 with FunctionError set, the payload
\* being the error the handler threw.
TierResponses ==
  { Response("throws", FALSE, FALSE, None),
    Response("status", FALSE, FALSE, None),
    Response("functionError", FALSE, FALSE, None),
    Response("ok", FALSE, FALSE, None),
    Response("ok", TRUE, TRUE, None) }

\* Mutant: the tiers are invoked together instead of one by one.
StartTier_AllAtOnce ==
  /\ driverKind = "adaptive"
  /\ driverPc = "Tiers"
  /\ Len(tierRuns) < Len(memorySizes)
  /\ inFlight' = inFlight \cup
                   {tierInvocation(memorySizes[t]) :
                      t \in (Len(tierRuns) + 1)..Len(memorySizes)}
  /\ startedAt' = driverNow
  /\ driverPc' = "InTier"
  /\ UNCHANGED <<driverKind, skipCalibration, driverNow, settleUntil,
                 calibrationResponse, calibrationData, tierRuns, exitCode>>
  /\ UNCHANGED handlerVars

\* The loop of runTests() sends the invocation of the next tier, at once.
StartTier ==
  /\ driverKind = "adaptive"
  /\ driverPc = "Tiers"
  /\ Len(tierRuns) < Len(memorySizes)
  /\ inFlight' = inFlight \cup {tierInvocation(memorySizes[Len(tierRuns) + 1])}
  /\ startedAt' = driverNow
  /\ driverPc' = "InTier"
  /\ UNCHANGED <<driverKind, skipCalibration, driverNow, settleUntil,
                 calibrationResponse, calibrationData, tierRuns, exitCode>>
  /\ UNCHANGED handlerVars

\* One pass through the loop of runTests(): the tier was invoked with the
\* calibration data; the handler sizes its workload from the payload; a failed
\* invocation is rethrown and ends the process with exit code 1.
RunTier ==
  /\ driverKind = "adaptive"
  /\ driverPc = "InTier"
  /\ \E d \in InvokeDurations : driverNow' = driverNow + d
  /\ inFlight' = inFlight \ {tierInvocation(memorySizes[Len(tierRuns) + 1])}
  /\ \E r \in TierResponses :
       LET mem == memorySizes[Len(tierRuns) + 1]
           payload == tierPayload(calibrationData[1])
       IN /\ tierRuns' = Append(tierRuns,
               [memorySize |-> mem,
                payload |-> payload,
                response |-> r,
                startedAt |-> startedAt,
                endedAt |-> driverNow',
                baseline |-> calibrationCpuTimeOf(payload),
                dataSizeKB |-> calibratedDataSizeKB(mem, calibrationCpuTimeOf(payload),
                                                    calibrationDataSizeOf(payload))])
          /\ driverPc' = IF invokeThrows(r) THEN "Exited" ELSE "Tiers"
          /\ exitCode' = IF invokeThrows(r) THEN 1 ELSE 0
  /\ UNCHANGED <<driverKind, skipCalibration, startedAt, settleUntil,
                 calibrationResponse, calibrationData>>
  /\ UNCHANGED handlerVars

\* 'All tests completed successfully!'
RunTestsDone ==
  /\ driverKind = "adaptive"
  /\ driverPc = "Tiers"
  /\ ~(Len(tierRuns) < Len(memorySizes))
  /\ driverPc' = "Done"
  /\ UNCHANGED <<driverKind, skipCalibration, driverNow, inFlight, startedAt,
                 settleUntil, calibrationResponse, calibrationData, tierRuns,
                 exitCode>>
  /\ UNCHANGED handlerVars

(***************************************************************************)
(* The standard test driver (test-throttling.ts).                          *)
(***************************************************************************)
\* setTimeout(resolve, 3000) after the calibration, setTimeout(resolve, 2000)
\* between two tiers.
delayAfterCalibrationMs == 3000
delayBetweenTestsMs == 2000

\* parseInt(argMap.duration || '5000'), logThreshold: 5, and
\* parseInt(argMap.dataSize || '100') * 1024 of the driver's defaults.
stdDriverTestDurationMs == 5000
stdDriverLogThreshold == 5
stdDriverDataSize == 102400

\* The averages a calibration body can hold: the wall time in ms, the CPU time
\* in tenths of a ms, None for null.
StdCalibrationResults ==
  { [averageIterationTimeMs |-> None, averageCpuTimePerIterationMs |-> None],
    [averageIterationTimeMs |-> Some(4), averageCpuTimePerIterationMs |-> None],
    [averageIterationTimeMs |-> Some(0), averageCpuTimePerIterationMs |-> Some(0)],
    [averageIterationTimeMs |-> Some(4), averageCpuTimePerIterationMs |-> Some(36)] }

StdCalibrationResponses ==
  { Response("throws", FALSE, FALSE, None),
    Response("status", FALSE, FALSE, None),
    Response("ok", FALSE, FALSE, None),
    Response("ok", TRUE, TRUE, None) }
  \cup { Response("ok", TRUE, TRUE, Some(c)) : c \in StdCalibrationResults }

\* runCalibration() of the standard driver: null (None) on a status other
\* than 200, on anything thrown inside the try (the call, JSON.parse of a
\* missing body, toFixed on a null average) and on a body without
\* calibrationResults; the two averages otherwise.
runStdCalibrationOf(r) ==
  IF invokeThrows(r) \/ ~r.hasBody \/ ~r.bodyParses THEN None
  ELSE IF r.calibrationResults = None THEN None
  ELSE IF \/ r.calibrationResults[1].averageIterationTimeMs = None
          \/ r.calibrationResults[1].averageCpuTimePerIterationMs = None
       THEN None
  ELSE Some([baselineIterationTimeMs |->
               r.calibrationResults[1].averageIterationTimeMs[1],
             baselineCpuTimePerIterationMs |->
               r.calibrationResults[1].averageCpuTimePerIterationMs[1]])

\* if (!skipCalibration) is false: straight to the tests, without a baseline.
StdSkipCalibration ==
  /\ driverKind = "standard"
  /\ driverPc = "Start"
  /\ skipCalibration
  /\ driverPc' = "Tiers"
  /\ UNCHANGED <<driverKind, skipCalibration, driverNow, inFlight, startedAt,
                 settleUntil, calibrationResponse, calibrationData, tierRuns,
                 exitCode>>
  /\ UNCHANGED handlerVars

\* baselineData = await runCalibration(): the invocation is sent.
StdStartCalibration ==
  /\ driverKind = "standard"
  /\ driverPc = "Start"
  /\ ~skipCalibration
  /\ inFlight' = inFlight \cup {calibrationInvocation}
  /\ startedAt' = driverNow
  /\ driverPc' = "Calibrating"
  /\ UNCHANGED <<driverKind, skipCalibration, driverNow, settleUntil,
                 calibrationResponse, calibrationData, tierRuns, exitCode>>
  /\ UNCHANGED handlerVars

\* The calibration comes back; the driver sets the 3 s timer.
StdRunCalibration ==
  /\ driverKind = "standard"
  /\ driverPc = "Calibrating"
  /\ \E r \in StdCalibrationResponses :
       /\ calibrationResponse' = r
       /\ calibrationData' = runStdCalibrationOf(r)
  /\ \E d \in InvokeDurations :
       /\ driverNow' = driverNow + d
       /\ settleUntil' = driverNow + d + delayAfterCalibrationMs
  /\ inFlight' = inFlight \ {calibrationInvocation}
  /\ driverPc' = "Settling"
  /\ UNCHANGED <<driverKind, skipCalibration, startedAt, tierRuns, exitCode>>
  /\ UNCHANGED handlerVars

\* The timer of a delay fires, on time or a little late.
StdSettled ==
  /\ driverKind = "standard"
  /\ driverPc = "Settling"
  /\ \E j \in SleepJitter : driverNow' = settleUntil + j
  /\ driverPc' = "Tiers"
  /\ UNCHANGED <<driverKind, skipCalibration, inFlight, startedAt, settleUntil,
                 calibrationResponse, calibrationData, tierRuns, exitCode>>
  /\ UNCHANGED handlerVars

\* The payload of runThrottlingTest(): the baseline fields only when
\* baselineData is not null.
stdTierPayload(bd) ==
  [NoStdEvent EXCEPT
     !.testDurationMs = Some(stdDriverTestDurationMs),
     !.logThreshold = Some(stdDriverLogThreshold),
     !.dataSize = Some(stdDriverDataSize),
     !.baselineIterationTimeMs =
       IF bd = None THEN None ELSE Some(bd[1].baselineIterationTimeMs),
     !.baselineCpuTimePerIterationMs =
       IF bd = None THEN None ELSE Some(bd[1].baselineCpuTimePerIterationMs)]

\* runThrottlingTest(memorySize, baselineData || undefined): the invocation is sent.
StdStartTier ==
  /\ driverKind = "standard"
  /\ driverPc = "Tiers"
  /\ Len(tierRuns) < Len(memorySizes)
  /\ inFlight' = inFlight \cup {tierInvocation(memorySizes[Len(tierRuns) + 1])}
  /\ startedAt' = driverNow
  /\ driverPc' = "InTier"
  /\ UNCHANGED <<driverKind, skipCalibration, driverNow, settleUntil,
                 calibrationResponse, calibrationData, tierRuns, exitCode>>
  /\ UNCHANGED handlerVars

\* runThrottlingTest() gives null on a status other than 200 and on anything
\* thrown; runTests() then parses results.body outside any try, so a result
\* without a parseable body rejects runTests(), which is logged.
stdTierRejects(r) == ~invokeThrows(r) /\ (~r.hasBody \/ ~r.bodyParses)

\* The tier's invocation comes back; unless it was the last tier the driver
\* sets the 2 s timer.
StdRunTier ==
  /\ driverKind = "standard"
  /\ driverPc = "InTier"
  /\ inFlight' = inFlight \ {tierInvocation(memorySizes[Len(tierRuns) + 1])}
  /\ \E r \in TierResponses, d \in InvokeDurations :
       LET mem == memorySizes[Len(tierRuns) + 1]
           payload == stdTierPayload(calibrationData)
           last == mem = memorySizes[Len(memorySizes)]
       IN /\ driverNow' = driverNow + d
          /\ tierRuns' = Append(tierRuns,
               [memorySize |-> mem,
                payload |-> payload,
                response |-> r,
                startedAt |-> startedAt,
                endedAt |-> driverNow + d,
                baseline |-> OrDefault(payload.baselineIterationTimeMs, 0),
                dataSizeKB |-> 0])
          /\ driverPc' = IF stdTierRejects(r) THEN "Exited"
                         ELSE IF last THEN "Tiers" ELSE "Settling"
          /\ settleUntil' = IF stdTierRejects(r) \/ last THEN settleUntil
                            ELSE driverNow + d + delayBetweenTestsMs
  /\ UNCHANGED <<driverKind, skipCalibration, startedAt, calibrationResponse,
                 calibrationData, exitCode>>
  /\ UNCHANGED handlerVars

\* 'All tests completed.'
StdRunTestsDone ==
  /\ driverKind = "standard"
  /\ driverPc = "Tiers"
  /\ ~(Len(tierRuns) < Len(memorySizes))
  /\ driverPc' = "Done"
  /\ UNCHANGED <<driverKind, skipCalibration, driverNow, inFlight, startedAt,
                 settleUntil, calibrationResponse, calibrationData, tierRuns,
                 exitCode>>
  /\ UNCHANGED handlerVars

(***************************************************************************)
(* DriverSpec: one execution of a test driver.                             *)
(***************************************************************************)
InitDriver ==
  /\ fn = "calibrated"
  /\ memorySize = 128
  /\ event = NoEvent
  /\ cpuClock = 0
  /\ std = NoStd
  /\ HandlerIdle
  /\ \/ driverKind = "adaptive" /\ skipCalibration = FALSE
     \/ driverKind = "standard" /\ skipCalibration \in BOOLEAN
  /\ DriverStart

DriverNext ==
  \/ StartCalibration
  \/ RunCalibration
  \/ StartTier
  \/ RunTier
  \/ RunTestsDone
  \/ StdSkipCalibration
  \/ StdStartCalibration
  \/ StdRunCalibration
  \/ StdSettled
  \/ StdStartTier
  \/ StdRunTier
  \/ StdRunTestsDone

DriverSpec == InitDriver /\ [][DriverNext]_vars

(***************************************************************************)
(* Spec: one invocation of an adaptive handler.                            *)
(***************************************************************************)
\* The deployed function and the calibration fields of its request.
RunConfigs ==
  { [fn |-> "calibrated", mem |-> 128,  cpuTime |-> None,     dataSize |-> None],
    [fn |-> "calibrated", mem |-> 1769, cpuTime |-> Some(18), dataSize |-> Some(50)],
    [fn |-> "refining",   mem |-> 128,  cpuTime |-> None,     dataSize |-> None],
    [fn |-> "refining",   mem |-> 1769, cpuTime |-> None,     dataSize |-> None] }

RunDurations == {None, Some(0), Some(10), Some(throttleIntervalMs * MaxIter + 5)}
RunIterations == {None} \cup {Some(n) : n \in 0..MaxIter}

\* CPU time the process has consumed before the invocation (a warm process).
PriorCpuTimes == {0, 70}

InitAdaptive ==
  /\ \E c \in RunConfigs :
       /\ fn = c.fn
       /\ memorySize = c.mem
       /\ \E d \in RunDurations, n \in RunIterations :
            event = [NoEvent EXCEPT !.testDurationMs = d, !.iterations = n,
                                    !.calibrationCpuTimeFor100KBMs = c.cpuTime,
                                    !.calibrationDataSizeKB = c.dataSize]
  /\ iterationsOf(event) <= MaxIter
  /\ cpuClock \in PriorCpuTimes
  /\ std = NoStd
  /\ HandlerIdle
  /\ DriverIdle

\* The deployed standard function: the calibration function (3000 MB, with
\* IS_CALIBRATION set) or a test function of one memory tier.
StdConfigs ==
  { [mem |-> 3000, env |-> TRUE], [mem |-> 128, env |-> FALSE] }

StdDurations == {Some(MaxTestDurationMs)}
StdBaselines == {None, Some(0), Some(2), Some(4), Some(10)}
StdSuppliedDurations == {Some(0), Some(7)}
StdDataSizes == {Some(0), Some(2048)}
StdWarmups == {Some(n) : n \in 1..MaxWarmup}
StdCalibrations == {Some(-1)} \cup {Some(n) : n \in 1..MaxCalibration}

StdEvents ==
  {[NoStdEvent EXCEPT !.testDurationMs = d, !.baselineIterationTimeMs = b,
                      !.baselineCpuTimePerIterationMs = b] :
     d \in StdDurations, b \in StdBaselines}
  \cup
  {[NoStdEvent EXCEPT !.isCalibration = c, !.warmupIterations = w,
                      !.calibrationIterations = n] :
     c \in {None, Some(TRUE)}, w \in StdWarmups, n \in StdCalibrations}
  \cup
  {[NoStdEvent EXCEPT !.isCalibration = Some(TRUE), !.warmupIterations = Some(1),
                      !.calibrationIterations = Some(1),
                      !.testDurationMs = d, !.dataSize = b] :
     d \in StdSuppliedDurations, b \in StdDataSizes}

InitStandard ==
  /\ fn = "standard"
  /\ \E c \in StdConfigs :
       /\ memorySize = c.mem
       /\ std = [envIsCalibration |-> c.env]
  /\ event \in StdEvents
  /\ warmupIterationsOf(std.envIsCalibration, event) <= MaxWarmup
  /\ calibrationIterationsOf(std.envIsCalibration, event) <= MaxCalibration
  /\ isCalibrationOf(std.envIsCalibration, event)
       \/ stdTestDurationMsOf(std.envIsCalibration, event) <= MaxTestDurationMs
  /\ cpuClock \in PriorCpuTimes
  /\ HandlerIdle
  /\ DriverIdle

Init == InitAdaptive \/ InitStandard

Next ==
  \/ HandlerStart
  \/ Iterate
  \/ WorkloadFails
  \/ Wake
  \/ Complete
  \/ StdStart
  \/ StdWarmup
  \/ StdWarmupDone
  \/ StdCalibrate
  \/ StdCalibrationDone
  \/ StdIterate
  \/ StdComplete

Spec == Init /\ [][Next]_vars

(***************************************************************************)
(* LiveSpec: one invocation of an adaptive handler, with the progress the  *)
(* runtime gives it: the handler's synchronous code runs on, and a timer   *)
(* that was set fires.                                                     *)
(***************************************************************************)
AdaptiveNext ==
  \/ HandlerStart
  \/ Iterate
  \/ WorkloadFails
  \/ Wake
  \/ Complete

\* The runs of at most MaxLiveIter iterations, in a fresh process.
InitLive ==
  /\ InitAdaptive
  /\ iterationsOf(event) <= MaxLiveIter
  /\ cpuClock = 0

LiveSpec ==
  /\ InitLive
  /\ [][AdaptiveNext]_vars
  /\ WF_vars(HandlerStart)
  /\ WF_vars(Iterate)
  /\ WF_vars(WorkloadFails)
  /\ WF_vars(Wake)
  /\ WF_vars(Complete)

(***************************************************************************)
(* SizerSpec: the sizing of the handlers over a wide range of memory sizes *)
(* and calibration data.                                                   *)
(***************************************************************************)
SizerMemorySizes == 1..memoryForOneFullCore
SizerCpuTimes == {None, Some(0), Some(1), Some(18), Some(36), Some(72)}
SizerDataSizesKB == {None, Some(1), Some(50), Some(100), Some(200)}

SizerEvents ==
  {[NoEvent EXCEPT !.calibrationCpuTimeFor100KBMs = c, !.calibrationDataSizeKB = s] :
     c \in SizerCpuTimes, s \in SizerDataSizesKB}

InitSizer ==
  /\ fn = "calibrated"
  /\ memorySize \in SizerMemorySizes
  /\ event \in SizerEvents
  /\ cpuClock = 0
  /\ std = NoStd
  /\ HandlerIdle
  /\ DriverIdle

SizerNext == HandlerStart

SizerSpec == InitSizer /\ [][SizerNext]_vars

\* The calibration run on its own: MeanSamples measured iterations in every
\* order the outcomes allow.
MeanSamples == 3

InitMean ==
  /\ fn = "standard"
  /\ memorySize = 3000
  /\ std = [envIsCalibration |-> TRUE]
  /\ event = [NoStdEvent EXCEPT !.warmupIterations = Some(1),
                                !.calibrationIterations = Some(MeanSamples)]
  /\ cpuClock = 0
  /\ HandlerIdle
  /\ DriverIdle

MeanNext ==
  \/ StdStart
  \/ StdWarmup
  \/ StdWarmupDone
  \/ StdCalibrate
  \/ StdCalibrationDone
  \/ StdComplete

MeanSpec == InitMean /\ [][MeanNext]_vars

\* Runs of the calibrated handler of up to MaxUtilRecords iterations whose
\* statistics are computed as JavaScript numbers.
MaxUtilRecords == 3

UtilizationMemorySizes == {128, memoryForOneFullCore}

\* The executions of the workload unit in these runs: 0, 1.0, 12.0 and 25.0 ms
\* of CPU time, the wall time being the CPU time in whole milliseconds; timers
\* fire on time.
UtilizationOutcomes ==
  { [wall |-> 0,  cpu |-> 0,   delay |-> 0],
    [wall |-> 1,  cpu |-> 10,  delay |-> 0],
    [wall |-> 12, cpu |-> 120, delay |-> 0],
    [wall |-> 25, cpu |-> 250, delay |-> 0] }
UtilizationJitter == {0}

\* The requests: { iterations: n } for n >= 1, and { testDurationMs: 10 } for
\* a run of Math.floor(10 / 20) = 0 iterations.
UtilizationEvents ==
  {[NoEvent EXCEPT !.iterations = Some(n)] : n \in 1..MaxUtilRecords}
    \cup {[NoEvent EXCEPT !.testDurationMs = Some(throttleIntervalMs \div 2)]}

InitUtilization ==
  /\ fn = "calibrated"
  /\ memorySize \in UtilizationMemorySizes
  /\ event \in UtilizationEvents
  /\ cpuClock = 0
  /\ std = NoStd
  /\ HandlerIdle
  /\ DriverIdle

\* JSON.stringify followed by JSON.parse on a binary64 statistic: NaN is
\* written as null, a finite value comes back as it was.
JsonBinary64(x) == IF x = NaN THEN Null ELSE x

\* The lines after the loop (131-185), with avgCpuTime, the budget and
\* cpuUtilizationPercent as the binary64 values the code computes.
SummariseBinary64 ==
  /\ fn = "calibrated"
  /\ pc = "Running"
  /\ ~(i < iterations)
  /\ LET b == statsBinary64(memorySize, results.iterationResults)
         st == [computeStats(fn, memorySize, results.iterationResults, dataSizeKB)
                  EXCEPT !.avgCpuTime = b.avgCpuTime,
                         !.allowedCpuTimePerInterval = b.allowedCpuTimePerInterval,
                         !.cpuUtilizationPercent = b.cpuUtilizationPercent]
         res == [results EXCEPT !.endTime = now,
                                !.totalWallClockTime = now - results.startTime,
                                !.totalCpuTime = cpuClock]
         exact == responseBody(fn, res, computeStats(fn, memorySize,
                                                     results.iterationResults,
                                                     dataSizeKB))
     IN /\ results' = res
        /\ stats' = st
        /\ ret' = [statusCode |-> 200,
                   body |-> [exact EXCEPT
                      !.stats.avgCpuTime = JsonBinary64(stats'.avgCpuTime),
                      !.stats.allowedCpuTimePerInterval =
                         JsonBinary64(stats'.allowedCpuTimePerInterval),
                      !.stats.cpuUtilizationPercent =
                         JsonBinary64(stats'.cpuUtilizationPercent)]]
  /\ pc' = "Completed"
  /\ UNCHANGED driverVars
  /\ UNCHANGED <<fn, memorySize, event, now, cpuClock, iterations, i, dataSizeKB,
                 hasAdaptedDataSize, elapsed, remainingTimeInInterval, sleeps, std>>

UtilizationNext ==
  \/ HandlerStart
  \/ IterateWith(UtilizationOutcomes)
  \/ WakeWith(UtilizationJitter)
  \/ SummariseBinary64

UtilizationSpec == InitUtilization /\ [][UtilizationNext]_vars

(***************************************************************************)
(* Claims about the Adaptive Sizer (SizerSpec).                            *)
(***************************************************************************)
\* The sizing inputs the handler uses: the request's value, or the default.
EffCpuTime == IF event.calibrationCpuTimeFor100KBMs \in {None, Some(0)}
              THEN 36 ELSE event.calibrationCpuTimeFor100KBMs[1]
EffDataSize == IF event.calibrationDataSizeKB \in {None, Some(0)}
               THEN 100 ELSE event.calibrationDataSizeKB[1]

\* allowed / baseline * referenceSize of the reference formula as the fraction
\* RefNum / RefDen: allowed = (memory/1769) * 20 * safetyFactor, safetyFactor
\* 0.55 when memory/1769 < 0.3 and 0.85 otherwise, baseline = EffCpuTime / 10 ms.
RefNum == memorySize * 2 * (IF 10 * memorySize < 5307 THEN 55 ELSE 85) * EffDataSize
RefDen == 1769 * EffCpuTime

\* C3: the calibrated handler's size is max(1, floor((allowed / baseline) *
\* referenceSize)) with allowed = (memory/1769) * 20 * safetyFactor, safetyFactor
\* 0.55 below a CPU share of 0.3 and 0.85 from there on; 1769 MB with a baseline
\* of 3.6 ms per 100 KB gives 472 KB and 128 MB gives 22 KB.
C3_SizerMatchesReference ==
  pc = "Running" =>
    /\ IsInteger(dataSizeKB) /\ dataSizeKB.d = 1
    /\ \/ dataSizeKB.n = 1 /\ RefNum < 2 * RefDen
       \/ /\ dataSizeKB.n >= 1
          /\ dataSizeKB.n * RefDen <= RefNum
          /\ RefNum < (dataSizeKB.n + 1) * RefDen
    /\ (memorySize = 1769 /\ EffCpuTime = 36 /\ EffDataSize = 100) => dataSizeKB.n = 472
    /\ (memorySize = 128 /\ EffCpuTime = 36 /\ EffDataSize = 100) => dataSizeKB.n = 22

C3_Witness ==
  /\ pc = "Running" /\ memorySize = 128
  /\ event.calibrationCpuTimeFor100KBMs = Some(36)
  /\ event.calibrationDataSizeKB = Some(100)
  /\ dataSizeKB = Num(22)

\* The size the handler computes for half the memory of this invocation.
SizeAtHalfShare == calibratedDataSizeKB(memorySize \div 2, EffCpuTime, EffDataSize)
Abs(x) == IF x < 0 THEN -x ELSE x

\* C4 as stated: for every CPU share s the size for s/2 is half the size for s,
\* within one unit.
C4_Original_HalvingHalvesSize ==
  (pc = "Running" /\ memorySize % 2 = 0) =>
    Abs(2 * SizeAtHalfShare - dataSizeKB.n) <= 2

\* C4 amended: the size for s/2 is half the size for s, within one unit, whenever
\* s and s/2 lie on the same side of the 0.3 cut-off of the safety factor.
C4_HalvingHalvesSizeSameFactor ==
  (/\ pc = "Running" /\ memorySize % 2 = 0
   /\ (10 * memorySize < 5307) = (10 * (memorySize \div 2) < 5307)) =>
    Abs(2 * SizeAtHalfShare - dataSizeKB.n) <= 2

C4_Witness ==
  /\ pc = "Running" /\ memorySize = 1768 /\ EffCpuTime = 36 /\ EffDataSize = 100
  /\ dataSizeKB.n = 471 /\ SizeAtHalfShare = 235

(***************************************************************************)
(* Claims about one invocation of an adaptive handler (Spec).              *)
(***************************************************************************)
Adaptive == fn \in {"calibrated", "refining"}
Iterated ==
  /\ Adaptive
  /\ pc \in {"Running", "Sleeping", "Completed"}
  /\ Len(results.iterationResults) >= 1

\* C1 as stated: after an iteration whose elapsed time is a non-negative exact
\* multiple of 20 ms (0, 20, 40, ...) the remaining time is 0.
C1_Original_MultipleGivesZero ==
  (Iterated /\ elapsed >= 0 /\ elapsed % 20 = 0) => remainingTimeInInterval = 0

\* C1 amended: after an iteration whose elapsed time is a positive exact multiple
\* of 20 ms (20, 40, ...) the remaining time is 0, never a full quantum; an
\* elapsed time of 0 ms gives a remaining time of the full quantum, 20.
C1_PositiveMultipleGivesZero ==
  Iterated =>
    /\ (elapsed > 0 /\ elapsed % 20 = 0) => remainingTimeInInterval = 0
    /\ elapsed = 0 => remainingTimeInInterval = 20

C1_Witness ==
  /\ Iterated /\ elapsed = 40 /\ remainingTimeInInterval = 0

\* C2: the workload size in effect for every iteration is an integer >= 1, from
\* the sizing on and after the one-shot refinement, whatever CPU time >= 0 the
\* first iteration measured.
C2_SizeIsPositiveInteger ==
  (Adaptive /\ pc # "Idle") => (IsInteger(dataSizeKB) /\ dataSizeKB.n >= 1)

\* C5: the reported potentialThrottlingEvents is the number of iteration records
\* whose wallClockTimeMs is greater than 30 ms.
OverThreshold(recs) == {r \in 1..Len(recs) : recs[r].wallClockTimeMs > 30}

C5_ThrottlingEventsCountOver30 ==
  (Adaptive /\ pc = "Completed") =>
    /\ stats.potentialThrottlingEvents = Cardinality(OverThreshold(results.iterationResults))
    /\ ret.body.stats.potentialThrottlingEvents = stats.potentialThrottlingEvents

C5_Witness ==
  /\ pc = "Completed" /\ fn = "calibrated"
  /\ \E a, b \in 1..Len(results.iterationResults) :
       /\ results.iterationResults[a].wallClockTimeMs = 35
       /\ results.iterationResults[b].wallClockTimeMs = 30
  /\ stats.potentialThrottlingEvents = 1

\* C7: a run of zero iterations does not fail; it returns status 200 with
\* totalIterations = 0, and every statistic of the returned summary (avg, min,
\* max of CPU and wall time, utilization) is null or zero.
NullOrZero(x) == x = Null \/ (x.k = "num" /\ x.n = 0)

C7_EmptyRunReturnsEmptySummary ==
  (Adaptive /\ pc # "Idle" /\ iterations = 0) =>
    /\ pc # "Failed"
    /\ pc = "Completed" =>
         /\ ret.statusCode = 200
         /\ ret.body.totalIterations = 0
         /\ ret.body.iterationResults = <<>>
         /\ NullOrZero(ret.body.stats.avgCpuTime)
         /\ NullOrZero(ret.body.stats.minCpuTime)
         /\ NullOrZero(ret.body.stats.maxCpuTime)
         /\ NullOrZero(ret.body.stats.avgWallClockTime)
         /\ NullOrZero(ret.body.stats.minWallClockTime)
         /\ NullOrZero(ret.body.stats.maxWallClockTime)
         /\ ret.body.stats.potentialThrottlingEvents = 0
         /\ fn = "calibrated" => NullOrZero(ret.body.stats.cpuUtilizationPercent)

C7_Witness ==
  /\ pc = "Completed" /\ fn = "calibrated" /\ iterations = 0
  /\ event.testDurationMs = Some(10) /\ event.iterations = None
  /\ ret.statusCode = 200 /\ ret.body.stats.avgCpuTime = Null

\* C10: on completion the number of workload units executed and of iteration
\* records held is the iteration count the request gives, or, when it gives none,
\* floor(testDurationMs / 20) (testDurationMs 5000 when the request gives none);
\* totalIterations is the number of records at every iteration boundary.
RequestedIterations ==
  IF event.iterations # None THEN event.iterations[1]
  ELSE (IF event.testDurationMs # None THEN event.testDurationMs[1] ELSE 5000) \div 20

C10_IterationCountAsRequested ==
  Adaptive =>
    /\ results.totalIterations = Len(results.iterationResults)
    /\ pc = "Completed" =>
         /\ results.totalIterations = RequestedIterations
         /\ Len(ret.body.iterationResults) = RequestedIterations

(***************************************************************************)
(* Claims about one invocation of the standard handler (Spec).             *)
(***************************************************************************)
\* A step of the throttling test's loop, with a baseline supplied.
IterationWithBaseline ==
  /\ fn = "standard" /\ pc = "Testing"
  /\ results'.totalIterations = results.totalIterations + 1
  /\ std.baselineIterationTimeMs > 0

RecordedInStep == Len(results'.throttlingEvents) = Len(results.throttlingEvents) + 1

\* C6 as stated: with a baseline supplied (baselineIterationTimeMs > 0) an
\* iteration is recorded in throttlingEvents if and only if its elapsed wall
\* time divided by the baseline is strictly greater than 1.5.
C6_Original_RecordedIffOverBaseline ==
  [][IterationWithBaseline =>
       (RecordedInStep <=>
          2 * std'.elapsedSinceLastCheck > 3 * std.baselineIterationTimeMs)]_vars

\* C6 amended: with a baseline supplied, an iteration whose elapsed wall time
\* divided by the baseline is strictly greater than 1.5 is recorded in
\* throttlingEvents; an iteration is recorded if and only if that ratio is above
\* 1.5, or its elapsed time is above logThreshold (5 ms unless the request gives
\* one) and the time since the start is above startLogBuffer (10 ms unless the
\* request gives one).
C6_RecordedIffOverBaselineOrDelay ==
  [][IterationWithBaseline =>
       LET e == std'.elapsedSinceLastCheck
           over == 2 * e > 3 * std.baselineIterationTimeMs
       IN /\ over => RecordedInStep
          /\ RecordedInStep <=>
               (over \/ (e > 5 /\ now' - std.startRealTime > 10))
          /\ Len(results'.throttlingEvents) \in
               {Len(results.throttlingEvents), Len(results.throttlingEvents) + 1}]_vars

C6_Witness ==
  /\ fn = "standard" /\ pc = "Testing"
  /\ std.baselineIterationTimeMs = 2
  /\ std.elapsedSinceLastCheck = 4 /\ std.isThrottled
  /\ results.totalIterations = 1
  /\ Len(results.throttlingEvents) = 1
  /\ results.throttlingEvents[1].detectedDelayMs = 4

\* A result that carries a flag marking it unreliable, on the result itself or
\* on its calibrationResults.
FlaggedUnreliable(body) ==
  \/ "unreliable" \in DOMAIN body /\ body.unreliable = TRUE
  \/ /\ body.calibrationResults # None
     /\ "unreliable" \in DOMAIN body.calibrationResults[1]
     /\ body.calibrationResults[1].unreliable = TRUE

\* C8: a calibration run that records no measurement sample, or that runs with a
\* CPU share below 1.0 (a memory size below 1769 MB), returns a result, and the
\* result is flagged as unreliable.
C8_UnreliableCalibrationFlagged ==
  (/\ fn = "standard" /\ pc = "Completed" /\ results.isCalibration
   /\ (Len(std.calibrationData) <= 0 \/ memorySize < memoryForOneFullCore)) =>
    /\ ret.statusCode = 200
    /\ FlaggedUnreliable(ret.body)

(***************************************************************************)
(* Claims about the adaptive test driver (DriverSpec).                     *)
(***************************************************************************)
\* The calibration invocation threw, returned a status other than 200, or
\* returned a body without usable calibrationResults.
CalibrationFailed ==
  /\ calibrationResponse # NoResponse
  /\ \/ calibrationResponse.kind \in {"throws", "status"}
     \/ ~calibrationResponse.hasBody
     \/ ~calibrationResponse.bodyParses
     \/ calibrationResponse.calibrationResults = None
     \/ calibrationResponse.calibrationResults[1].averageCpuTimePerIterationMs
          \in {None, Some(0)}

TierFailed(r) == r.response.kind \in {"throws", "status"}

\* C9: a failed calibration never aborts the driver: the driver ends early only
\* when the invocation of a tier fails, and otherwise invokes every memory tier
\* in order; after a failed calibration every tier is invoked and sized with the
\* fallback baseline of 3.6 ms CPU per 100 KB; and every adaptive run sizes its
\* workload from a strictly positive baseline.
C9_FailedCalibrationFallsBack ==
  driverKind = "adaptive" =>
  /\ driverPc = "Exited" =>
       (tierRuns # <<>> /\ TierFailed(tierRuns[Len(tierRuns)]))
  /\ driverPc = "Done" =>
       /\ Len(tierRuns) = 5
       /\ \A t \in 1..5 : tierRuns[t].memorySize = <<128, 256, 512, 1024, 1769>>[t]
  /\ \A t \in 1..Len(tierRuns) :
       /\ tierRuns[t].baseline > 0
       /\ tierRuns[t].dataSizeKB >= 1
       /\ CalibrationFailed =>
            /\ tierRuns[t].baseline = 36
            /\ tierRuns[t].payload.calibrationDataSizeKB = Some(100)
  /\ (CalibrationFailed
        /\ calibrationResponse.calibrationResults = None) =>
       calibrationData = Some([cpuTimeFor100KBMs |-> 36, baseDataSizeKB |-> 100])

C9_Witness ==
  /\ driverKind = "adaptive" /\ driverPc = "Done"
  /\ calibrationResponse.kind = "status"
  /\ Len(tierRuns) = 5
  /\ tierRuns[1].baseline = 36 /\ tierRuns[1].dataSizeKB = 22
  /\ tierRuns[5].baseline = 36 /\ tierRuns[5].dataSizeKB = 472

(***************************************************************************)
(* Claims about the course of an adaptive run (Spec, LiveSpec).            *)
(***************************************************************************)
\* The phases of a run in their order; the sleep between two iterations
\* belongs to Running, and a run whose workload throws ends in Failed.
PhaseRank(p) ==
  CASE p = "Idle" -> 0
    [] p \in {"Running", "Sleeping"} -> 1
    [] OTHER -> 2

\* The records held are those of the iterations 1, 2, ... in this order, each
\* once; in Running the loop index is the number of iterations executed.
RecordsInOrder ==
  Adaptive =>
    /\ \A k \in 1..Len(results.iterationResults) :
         results.iterationResults[k].iteration = k
    /\ pc = "Running" => i = Len(results.iterationResults)
    /\ pc = "Sleeping" => i + 1 = Len(results.iterationResults)
    /\ pc = "Completed" => Len(results.iterationResults) = iterations

\* A step of the run never goes back to an earlier phase, never leaves
\* Completed, and executes at most the one iteration the loop index names.
ForwardStep ==
  Adaptive =>
    /\ PhaseRank(pc') >= PhaseRank(pc)
    /\ pc = "Completed" => pc' = "Completed"
    /\ pc' = "Completed" => pc \in {"Running", "Completed"}
    /\ i' \in {i, i + 1} \/ pc = "Idle"
    /\ \/ results'.iterationResults = results.iterationResults
       \/ /\ pc = "Running" /\ i < iterations
          /\ Len(results'.iterationResults) = i + 1
          /\ results'.iterationResults[i + 1].iteration = i + 1
          /\ \A k \in 1..i :
               results'.iterationResults[k] = results.iterationResults[k]

\* C11: an adaptive run goes Idle -> Running -> Completed and never backwards,
\* never runs again after Completed and never retries an iteration: the
\* iterations 0 .. iterationCount - 1 are executed in increasing order, each
\* once, and a completed run has executed every one of them.
C11_ForwardOnlyEachIterationOnce ==
  []RecordsInOrder /\ [][ForwardStep]_vars

C11_Witness ==
  /\ Adaptive /\ pc = "Completed" /\ iterations = 3
  /\ Len(results.iterationResults) = 3
  /\ Len(sleeps) = 2

\* C12: every adaptive run eventually reaches Completed and computes its
\* summary, given that every sleep timer it sets fires; nothing but the
\* iteration count fixed before the loop bounds the run.
C12_EveryRunCompletes ==
  <>(pc = "Completed" /\ stats.computed /\ ret.statusCode = 200)

\* An iteration that took longer than the quantum is among the records.
OverrunSeen ==
  /\ Adaptive
  /\ \E k \in 1..Len(results.iterationResults) :
       results.iterationResults[k].wallClockTimeMs > 20

\* The step of an iteration: its record is appended with the wall time
\* measured (at most the 1 ms between the two clock readings below elapsed),
\* and when that time is above the quantum the step ends like any other, in
\* the sleep or at the loop test, never in a failure.
OverrunStep ==
  (Adaptive /\ pc = "Running"
     /\ Len(results'.iterationResults) = Len(results.iterationResults) + 1) =>
    LET r == results'.iterationResults[Len(results'.iterationResults)]
    IN /\ r.wallClockTimeMs \in {elapsed' - 1, elapsed'}
       /\ r.iteration = i + 1
       /\ elapsed' > 21 =>
            /\ r.wallClockTimeMs > 20
            /\ pc' \in {"Running", "Sleeping"}
            /\ results'.totalIterations = results.totalIterations + 1

\* C13: an iteration whose wall time exceeds the quantum is not an error: it
\* is appended as a record like any other and the run goes on; every remaining
\* iteration is executed and the run completes with its summary.
C13_OverrunIsRecordedAndRunGoesOn ==
  /\ [][OverrunStep]_vars
  /\ OverrunSeen ~> (/\ pc = "Completed" /\ stats.computed /\ ret.statusCode = 200
                     /\ Len(results.iterationResults) = iterations)

C13_Witness ==
  /\ Adaptive /\ pc = "Completed" /\ iterations = 2
  /\ Len(results.iterationResults) = 2
  /\ results.iterationResults[1].wallClockTimeMs = 35
  /\ stats.potentialThrottlingEvents >= 1

(***************************************************************************)
(* Claims about the sequencing of the drivers (DriverSpec).                *)
(***************************************************************************)
\* C14: in both drivers at most one remote invocation, calibration or tier, is
\* in flight at any time; a tier is invoked only after the invocation of the
\* tier before it has returned or failed.
C14_OneInvocationInFlight ==
  /\ Cardinality(inFlight) <= 1
  /\ (inFlight # {}) <=> (driverPc \in {"Calibrating", "InTier"})
  /\ driverPc = "Calibrating" => tierRuns = <<>>
  /\ driverPc = "InTier" =>
       /\ Len(tierRuns) < 5
       /\ inFlight = {[function |-> "tier",
                       memorySize |-> <<128, 256, 512, 1024, 1769>>[Len(tierRuns) + 1]]}
       /\ \A t \in 1..Len(tierRuns) : tierRuns[t].endedAt <= startedAt
  /\ \A t \in 1..Len(tierRuns) :
       /\ tierRuns[t].startedAt <= tierRuns[t].endedAt
       /\ t > 1 => tierRuns[t - 1].endedAt <= tierRuns[t].startedAt

C14_Witness ==
  /\ driverKind = "adaptive" /\ driverPc = "InTier"
  /\ Len(tierRuns) = 2
  /\ inFlight = {[function |-> "tier", memorySize |-> 512]}

\* C15: between the end of one tier's run and the start of the next tier's run
\* a settling delay elapses (2 s in the standard driver), in the standard and
\* in the adaptive driver, whether or not the earlier run succeeded.
C15_SettlingDelayBetweenTiers ==
  (driverPc = "InTier" /\ tierRuns # <<>>) =>
    /\ startedAt > tierRuns[Len(tierRuns)].endedAt
    /\ driverKind = "standard" =>
         startedAt - tierRuns[Len(tierRuns)].endedAt >= 2000

\* The calibration phase is over: it returned, failed or was skipped.
CalibrationOver ==
  /\ [function |-> "calibration", memorySize |-> 3000] \notin inFlight
  /\ calibrationResponse # NoResponse \/ (driverKind = "standard" /\ skipCalibration)

\* The baseline a tier's payload carries is the one the calibration phase left.
CarriesBaseline(run) ==
  IF driverKind = "adaptive"
  THEN /\ calibrationData # None
       /\ run.payload.calibrationCpuTimeFor100KBMs =
            Some(calibrationData[1].cpuTimeFor100KBMs)
       /\ run.payload.calibrationDataSizeKB = Some(calibrationData[1].baseDataSizeKB)
  ELSE IF calibrationData = None
  THEN /\ run.payload.baselineIterationTimeMs = None
       /\ run.payload.baselineCpuTimePerIterationMs = None
  ELSE /\ run.payload.baselineIterationTimeMs =
            Some(calibrationData[1].baselineIterationTimeMs)
       /\ run.payload.baselineCpuTimePerIterationMs =
            Some(calibrationData[1].baselineCpuTimePerIterationMs)

\* C16: no tier is invoked before the calibration phase is over (it returned a
\* baseline, failed, or was skipped); every tier of one driver execution gets
\* the same baseline; the baseline is never changed once the phase is over.
C16_CalibrationThenTiersOneBaseline ==
  /\ [](((driverPc = "InTier" \/ tierRuns # <<>>) => CalibrationOver)
        /\ \A t \in 1..Len(tierRuns) : CarriesBaseline(tierRuns[t]))
  /\ [][(driverPc \notin {"Start", "Calibrating"}) =>
          calibrationData' = calibrationData]_vars

C16_Witness ==
  /\ driverKind = "standard" /\ ~skipCalibration /\ driverPc = "Done"
  /\ calibrationData = Some([baselineIterationTimeMs |-> 4,
                              baselineCpuTimePerIterationMs |-> 36])
  /\ Len(tierRuns) = 5
  /\ tierRuns[1].payload.baselineIterationTimeMs = Some(4)
  /\ tierRuns[5].payload.baselineIterationTimeMs = Some(4)

(***************************************************************************)
(* Claims about the plan and the aggregation of a run (Spec).              *)
(***************************************************************************)
\* The sizes the run has used: the first iteration ran with the initial size,
\* the iterations from the second on with the size now in effect; the
\* calibrated handler has the initial size in effect throughout.
SizesOfRun ==
  (Adaptive /\ pc # "Idle") =>
    /\ fn = "calibrated" =>
         /\ dataSizeKB = results.initialDataSizeKB
         /\ ~hasAdaptedDataSize
         /\ pc = "Completed" =>
              /\ stats.calibratedDataSizeKB = results.initialDataSizeKB
              /\ stats.allowedCpuTimePerInterval =
                   [k |-> "num",
                    n |-> memorySize * 20 * (IF 10 * memorySize < 5307 THEN 55 ELSE 85),
                    d |-> 176900]
    /\ fn = "refining" =>
         /\ Len(results.iterationResults) >= 1 =>
              results.iterationResults[1].dataSizeKB = results.initialDataSizeKB
         /\ \A k \in 2..Len(results.iterationResults) :
              results.iterationResults[k].dataSizeKB = dataSizeKB
         /\ ~hasAdaptedDataSize => dataSizeKB = results.initialDataSizeKB

\* A step changes the size in effect only directly after the first iteration,
\* and only once; the memory size (the CPU share) never changes.
SizeChangesOnce ==
  (Adaptive /\ pc # "Idle") =>
    /\ memorySize' = memorySize
    /\ dataSizeKB' # dataSizeKB =>
         /\ fn = "refining"
         /\ pc = "Running" /\ i = 0
         /\ Len(results.iterationResults) = 0
         /\ Len(results'.iterationResults) = 1
         /\ ~hasAdaptedDataSize /\ hasAdaptedDataSize'
    /\ hasAdaptedDataSize => hasAdaptedDataSize'

\* C17: the workload size changes at most once during a run and only directly
\* after the first iteration; the first iteration runs with the initial size,
\* all iterations from the second on with one and the same size; the calibrated
\* handler keeps its size, CPU share and allowed CPU budget for the whole run.
C17_SizeChangesAtMostOnce ==
  []SizesOfRun /\ [][SizeChangesOnce]_vars

C17_Witness ==
  /\ fn = "refining" /\ pc = "Completed" /\ hasAdaptedDataSize
  /\ Len(results.iterationResults) = 3
  /\ results.iterationResults[1].dataSizeKB # results.iterationResults[2].dataSizeKB
  /\ results.iterationResults[2].dataSizeKB = results.iterationResults[3].dataSizeKB

\* The rearrangements of 1..n.
Orderings(n) ==
  {p \in [1..n -> 1..n] : \A a, b \in 1..n : p[a] = p[b] => a = b}

RECURSIVE ExactSum(_)
ExactSum(xs) == IF xs = <<>> THEN f64Zero ELSE ExactAdd(Head(xs), ExactSum(Tail(xs)))

\* The arithmetic mean of the values, rounded once to binary64.
ArithmeticMean(xs) == f64DivInt(ExactSum(xs), Len(xs))

CalibrationAveraged ==
  fn = "standard" /\ pc \in {"Finishing", "Completed"} /\ std.averages # None

SamplesOf(field(_)) ==
  [r \in 1..Len(std.calibrationData) |-> field(std.calibrationData[r])]

CpuSample(d) == cpuTimeMsBinary64(d.cpuTimeMs)
WallSample(d) == iterationTimeMsBinary64(d.iterationTimeMs)

MeanInAnyOrder(xs, average) ==
  /\ average = ArithmeticMean(xs)
  /\ \A p \in Orderings(Len(xs)) :
       f64Average([j \in 1..Len(xs) |-> xs[p[j]]]) = average

\* The next larger binary64 value of a value > 0.
f64Next(a) ==
  LET s == AddBits(a.m, Zeros(mantissaBits - 1) \o <<1>>)
  IN IF s[1] = 1 THEN [m |-> SubSeq(s, 1, mantissaBits), x |-> a.x + 1]
     ELSE [m |-> Tail(s), x |-> a.x]

RECURSIVE f64NextN(_, _)
f64NextN(a, k) == IF k = 0 THEN a ELSE f64NextN(f64Next(a), k - 1)

\* a and b are at most k units in the last place apart.
WithinUlps(a, b, k) ==
  \/ a = b
  \/ /\ a.m # <<>>
     /\ b.m # <<>>
     /\ \E j \in 1..k : b = f64NextN(a, j) \/ a = f64NextN(b, j)

MeanUpToRounding(xs, average) ==
  /\ WithinUlps(average, ArithmeticMean(xs), 2 * Len(xs))
  /\ \A p \in Orderings(Len(xs)) :
       WithinUlps(f64Average([j \in 1..Len(xs) |-> xs[p[j]]]), average, 2 * Len(xs))

\* C18 (as the code has it): the calibration baseline is the sum of the
\* recorded samples, added from left to right in binary64, divided by their
\* number; it equals the arithmetic mean, and the baseline of every
\* permutation of the samples, up to rounding: for n samples they are at most
\* 2n units in the last place apart.
C18_BaselineIsTheMeanUpToRounding ==
  CalibrationAveraged =>
    /\ std.averages[1] = averagesBinary64(std.calibrationData)
    /\ MeanUpToRounding(SamplesOf(CpuSample), std.averages[1].cpuTimeMs)
    /\ MeanUpToRounding(SamplesOf(WallSample), std.averages[1].iterationTimeMs)

\* Three samples whose baseline depends on their order and is not the mean.
C18_Witness ==
  /\ CalibrationAveraged
  /\ Len(std.calibrationData) = MeanSamples
  /\ std.averages[1].cpuTimeMs # ArithmeticMean(SamplesOf(CpuSample))
  /\ \E p \in Orderings(Len(std.calibrationData)) :
       f64Average([j \in 1..Len(std.calibrationData) |-> SamplesOf(CpuSample)[p[j]]])
         # std.averages[1].cpuTimeMs

\* C18: the calibration baseline is exactly the arithmetic mean of the recorded
\* per-iteration cpuTimeMs samples (and likewise for the wall-time samples),
\* and it is the same for every permutation of the recorded samples.
C18_BaselineIsTheMeanInAnyOrder ==
  CalibrationAveraged =>
    /\ MeanInAnyOrder(SamplesOf(CpuSample), std.averages[1].cpuTimeMs)
    /\ MeanInAnyOrder(SamplesOf(WallSample), std.averages[1].iterationTimeMs)

Summarised ==
  /\ fn = "calibrated" /\ pc = "Completed" /\ stats.computed
  /\ results.iterationResults # <<>>

f64Hundred == f64OfInt(100)

\* 100 * avgCpuTime / allowedCpuTimePerInterval evaluated as JavaScript does,
\* and the same quotient rounded once.
HundredTimesQuotient(avgCpuTime, allowed) ==
  { f64Div(f64Mul(f64Hundred, avgCpuTime), allowed),
    f64Div(ExactMul(f64Hundred, avgCpuTime), allowed) }

\* C19: for every non-empty sequence of iteration records the reported
\* cpuUtilizationPercent equals exactly 100 * avgCpuTime /
\* allowedCpuTimePerInterval, with avgCpuTime the mean of the records'
\* cpuTimeMs and allowedCpuTimePerInterval the budget of the sizer.
C19_UtilizationIsExactly ==
  Summarised =>
    stats.cpuUtilizationPercent
      \in HundredTimesQuotient(stats.avgCpuTime, stats.allowedCpuTimePerInterval)

\* C19 (as the code has it): cpuUtilizationPercent is (avgCpuTime /
\* allowedCpuTimePerInterval) * 100 in double precision, with avgCpuTime the
\* left-to-right average of the records' cpuTimeMs and the budget that of the
\* sizer; it equals 100 * avgCpuTime / allowedCpuTimePerInterval up to
\* rounding, at most 2 units in the last place apart.
C19_UtilizationUpToRounding ==
  Summarised =>
    LET cpuTimes == [r \in 1..Len(results.iterationResults) |->
                       cpuTimeMsBinary64(results.iterationResults[r].cpuTimeMs)]
    IN /\ stats.avgCpuTime = f64Average(cpuTimes)
       /\ WithinUlps(stats.avgCpuTime, ArithmeticMean(cpuTimes), 2 * Len(cpuTimes))
       /\ stats.allowedCpuTimePerInterval = allowedBinary64(memorySize)
       /\ \A q \in HundredTimesQuotient(stats.avgCpuTime,
                                        stats.allowedCpuTimePerInterval) :
            WithinUlps(stats.cpuUtilizationPercent, q, 2)

\* One record of 1 ms on a full core: (1 / 17) * 100 is not 100 * 1 / 17.
C19_Witness ==
  /\ Summarised
  /\ memorySize = memoryForOneFullCore
  /\ Len(results.iterationResults) = 1
  /\ results.iterationResults[1].cpuTimeMs = 10
  /\ stats.cpuUtilizationPercent
       \notin HundredTimesQuotient(stats.avgCpuTime, stats.allowedCpuTimePerInterval)

\* The value a request supplies for a field, or the default when the field
\* is absent.
SuppliedOr(field, default) == IF field # None THEN field[1] ELSE default

\* C20: the effective testDurationMs, warmupIterations, calibrationIterations
\* and dataSize of a request are the values the request supplies whenever the
\* field is present, whatever number it holds (0 included), and the defaults
\* (5000, or 10000 for a calibration; 50; 500; 102400) only when it is absent.
C20_SuppliedValuesAreUsed ==
  (fn = "standard" /\ pc # "Idle") =>
    /\ std.testDurationMs =
         SuppliedOr(event.testDurationMs, IF std.isCalibration THEN 10000 ELSE 5000)
    /\ std.dataSize = SuppliedOr(event.dataSize, 102400)
    /\ std.isCalibration =>
         /\ std.warmupIterations = SuppliedOr(event.warmupIterations, 50)
         /\ std.calibrationIterations = SuppliedOr(event.calibrationIterations, 500)

\* C21: serialising the statistics of a run to the JSON body and parsing the
\* body back gives the statistics that were computed, for every run, a run of
\* zero iterations included.
C21_SummaryRoundTrips ==
  (Adaptive /\ pc = "Completed") =>
    \A f \in DOMAIN ret.body.stats : ret.body.stats[f] = stats[f]

\* The reference size of a request: baseDataSizeKB of the refining handler,
\* calibrationDataSizeKB of the calibrated one.
ReferenceSizeKB ==
  IF fn = "refining" THEN baseDataSizeOf(event) ELSE calibrationDataSizeOf(event)

\* reference * (memory / 1769) * 0.9, rounded down and rounded up.
ScaledLessTenPercentLow == (ReferenceSizeKB * memorySize * 9) \div (memoryForOneFullCore * 10)
ScaledLessTenPercentHigh ==
  (ReferenceSizeKB * memorySize * 9 + memoryForOneFullCore * 10 - 1)
    \div (memoryForOneFullCore * 10)

\* C22: the workload size of an adaptive run is the reference size scaled by
\* the CPU allocation memory / 1769 and reduced by 10 % (whichever way the
\* result is rounded to whole KB, and at least 1 KB); a reference of 100 KB
\* gives 7 KB on a 128 MB function.
C22_SizeIsScaledLessTenPercent ==
  (Adaptive /\ pc # "Idle") =>
    /\ results.initialDataSizeKB.k = "num"
    /\ results.initialDataSizeKB.d = 1
    /\ results.initialDataSizeKB.n >= Max(1, ScaledLessTenPercentLow)
    /\ results.initialDataSizeKB.n <= Max(1, ScaledLessTenPercentHigh)
    /\ (ReferenceSizeKB = 100 /\ memorySize = 128) => results.initialDataSizeKB.n = 7

\* An iteration of an adaptive run has just been executed.
IterationStep ==
  /\ Adaptive
  /\ results'.totalIterations = results.totalIterations + 1

SuspensionsOfRun ==
  (Adaptive /\ pc # "Idle") =>
    /\ Len(sleeps) <= Max(0, iterations - 1)
    /\ Len(sleeps) <= Len(results.iterationResults)
    /\ \A k \in 1..Len(sleeps) : sleeps[k] > 0 /\ sleeps[k] <= throttleIntervalMs
    /\ pc = "Sleeping" => i < iterations - 1 /\ remainingTimeInInterval > 0

SuspendsIffNotLastAndTimeLeft ==
  IterationStep =>
    /\ pc' = "Sleeping" <=> (i < iterations - 1 /\ remainingTimeInInterval' > 0)
    /\ pc' = "Sleeping" =>
         /\ sleeps' = Append(sleeps, remainingTimeInInterval')
         /\ cpuClock' = cpuClock + results'.iterationResults[i + 1].cpuTimeMs
    /\ pc' # "Sleeping" => sleeps' = sleeps

\* C23: after iteration i the loop suspends if and only if i is not the last
\* iteration and the remaining time computed is greater than 0; it never
\* suspends after the last iteration, and a run of n iterations suspends at
\* most n - 1 times, each time for at most one quantum.
C23_SuspendsIffNotLastAndTimeLeft ==
  []SuspensionsOfRun /\ [][SuspendsIffNotLastAndTimeLeft]_vars

\* A run of three iterations that suspended once: one of the first two
\* iterations ended on a quantum boundary, and the last is never followed by
\* a sleep.
C23_Witness ==
  /\ Adaptive /\ pc = "Completed"
  /\ iterations = 3
  /\ Len(sleeps) = 1

\* Start time of the k-th iteration, from its record.
StartOf(recs, k) == results.startTime + recs[k].startTime

\* Between the k-th iteration and the next nothing but the work and the
\* requested sleep took time.
ExactGap(recs, k) ==
  recs[k + 1].startTime - recs[k].startTime
    = recs[k].wallClockTimeMs + remainingTime(recs[k].wallClockTimeMs)

WholeQuanta(t) == t > 0 /\ t % throttleIntervalMs = 0

\* The step that starts iteration i + 1 after an iteration whose bookkeeping
\* took no time and whose sleep lasted exactly the time requested.
ExactlyTimedStart ==
  /\ IterationStep
  /\ i >= 1
  /\ elapsed = results.iterationResults[i].wallClockTimeMs
  /\ now = StartOf(results.iterationResults, i) + elapsed + remainingTimeInInterval

StartsInPhase ==
  ExactlyTimedStart =>
    WholeQuanta(results'.iterationResults[i + 1].startTime
                  - results.iterationResults[i].startTime)

InPhaseWithFirst ==
  Adaptive =>
    LET recs == results.iterationResults
    IN (\A k \in 1..(Len(recs) - 1) : ExactGap(recs, k)) =>
         \A k \in 2..Len(recs) : WholeQuanta(recs[k].startTime - recs[1].startTime)

\* C24: when every sleep lasts exactly the time requested and bookkeeping takes
\* no time, the start times of two consecutive iterations differ by a positive
\* whole number of quanta: at most one workload unit starts per quantum and
\* every iteration starts in phase with the first, also after an overrun.
C24_IterationsStartInPhase ==
  []InPhaseWithFirst /\ [][StartsInPhase]_vars

\* Three iterations, the first overran its quantum (35 ms): the second starts
\* 40 ms after the first, the third 20 ms after the second.
C24_Witness ==
  /\ Adaptive /\ pc = "Completed"
  /\ Len(results.iterationResults) = 3
  /\ results.iterationResults[1].wallClockTimeMs = 35
  /\ results.iterationResults[2].startTime - results.iterationResults[1].startTime = 40
  /\ results.iterationResults[3].startTime - results.iterationResults[2].startTime = 20

\* The first iteration of a run of the refining handler has just been executed.
FirstRefiningIteration ==
  /\ fn = "refining"
  /\ IterationStep
  /\ i = 0

\* targetCpuTimeMs = cpuAllocation * 20 * 0.9 * 0.8 = memorySize * 14.4 / 1769 ms,
\* in tenths of a millisecond the fraction TargetNum / TargetDen.
TargetNum == memorySize * 144
TargetDen == memoryForOneFullCore

\* The observed CPU time (tenths of a millisecond) lies outside
\* [0.7 * target, 1.3 * target].
OutsideBand(cpu) ==
  \/ 10 * cpu * TargetDen < 7 * TargetNum
  \/ 10 * cpu * TargetDen > 13 * TargetNum

\* C25: the refining handler rescales the size after the first iteration if
\* and only if the observed cpuTimeMs lies outside [0.7 * target, 1.3 * target]
\* with target = allowed CPU time per quantum * 0.8; the new size is then
\* max(1, floor(size * target / observed)); inside the band the size stays.
C25_RescaledIffOutsideBand ==
  [][FirstRefiningIteration =>
       LET cpu == results'.iterationResults[1].cpuTimeMs
       IN /\ hasAdaptedDataSize' <=> OutsideBand(cpu)
          /\ OutsideBand(cpu) =>
               /\ cpu > 0
               /\ dataSizeKB' = Num(Max(1, (dataSizeKB.n * TargetNum) \div (cpu * TargetDen)))
          /\ ~OutsideBand(cpu) => dataSizeKB' = dataSizeKB]_vars

RecordsOfExecutedUnits ==
  Adaptive =>
    LET recs == results.iterationResults
    IN /\ Len(recs) = results.totalIterations
       /\ \A k \in 1..Len(recs) : recs[k].iteration = k
       /\ \A k \in 1..(Len(recs) - 1) : recs[k].startTime <= recs[k + 1].startTime
       /\ pc = "Completed" => ret.body.iterationResults = recs

RecordsOnlyAppended ==
  (Adaptive /\ pc # "Idle") =>
    \/ results'.iterationResults = results.iterationResults
    \/ /\ IterationStep
       /\ Len(results'.iterationResults) = Len(results.iterationResults) + 1
       /\ SubSeq(results'.iterationResults, 1, Len(results.iterationResults))
            = results.iterationResults

\* C26: the iteration records of an adaptive run are append-only and in the
\* order of execution: one record per executed workload unit, the k-th record
\* numbered k, start offsets non-decreasing, and no record changed or removed
\* by a later iteration or by the aggregation.
C26_RecordsAppendOnlyInOrder ==
  []RecordsOfExecutedUnits /\ [][RecordsOnlyAppended]_vars

C26_Witness ==
  /\ Adaptive /\ pc = "Completed"
  /\ Len(results.iterationResults) = 3
  /\ results.iterationResults[3].iteration = 3
  /\ results.iterationResults[1].startTime < results.iterationResults[3].startTime
  /\ stats.computed

CalibrationRun == fn = "standard" /\ pc # "Idle" /\ std.isCalibration

SamplesOfCalibration ==
  CalibrationRun =>
    /\ Len(std.calibrationData) = results.totalIterations
    /\ results.throttlingEvents = <<>>
    /\ std.warmups <= std.warmupIterations
    /\ std.calibrationData # <<>> => std.warmups = std.warmupIterations
    /\ (pc \in {"Finishing", "Completed"} /\ std.calibrationIterations >= 0) =>
         /\ std.warmups = std.warmupIterations
         /\ Len(std.calibrationData) = std.calibrationIterations
         /\ results.totalIterations = std.calibrationIterations
    /\ pc = "Completed" =>
         /\ ret.body.totalIterations = Len(std.calibrationData)
         /\ ret.body.throttlingEvents = <<>>

WarmupRecordsNothing ==
  (CalibrationRun /\ std'.warmups = std.warmups + 1) =>
    /\ std.calibrationData = <<>>
    /\ std'.calibrationData = <<>>
    /\ results' = results

\* C27: a calibration run executes the workload warmupIterations times without
\* recording anything and then records exactly calibrationIterations samples
\* (for a count >= 0): on completion there are calibrationIterations samples,
\* totalIterations equals calibrationIterations (warm-up executions are not
\* counted), no warm-up execution follows a measured one, and throttlingEvents
\* stays empty.
C27_WarmupThenExactlyTheSamples ==
  []SamplesOfCalibration /\ [][WarmupRecordsNothing]_vars

C27_Witness ==
  /\ CalibrationRun /\ pc = "Completed"
  /\ std.warmupIterations = 2 /\ std.warmups = 2
  /\ std.calibrationIterations = 2
  /\ Len(std.calibrationData) = 2
  /\ ret.body.totalIterations = 2

\* The CPU time the iterations of the run consumed, from their records.
CpuTimeOfRecords ==
  SumSeq([k \in 1..Len(results.iterationResults) |->
            results.iterationResults[k].cpuTimeMs])

\* C28: the totalCpuTime an adaptive run reports is the CPU time consumed since
\* the start of that run: runs with the same iteration records report the same
\* totalCpuTime, whatever CPU time the process had consumed before the run.
C28_TotalCpuTimeIsOfThisRun ==
  (Adaptive /\ pc = "Completed") =>
    /\ results.totalCpuTime = CpuTimeOfRecords
    /\ ret.body.totalCpuTime = CpuTimeOfRecords

\* The run of a tier ended in a failure: the invocation was rejected or came
\* back with a status other than 200, or the handler threw while executing the
\* workload unit.
FailedRun(run) == run.response.kind \in {"throws", "status", "functionError"}

\* C29: a failure to execute the workload unit, or of the invocation of a
\* memory tier, aborts the adaptive flow and reaches the caller: the driver
\* rethrows it, invokes no later tier after the failure and ends in an error
\* state instead of reporting completion.
C29_FailureAbortsTheFlow ==
  driverKind = "adaptive" =>
    /\ \A t \in 1..Len(tierRuns) :
         FailedRun(tierRuns[t]) =>
           /\ t = Len(tierRuns)
           /\ driverPc = "Exited"
           /\ exitCode = 1
           /\ inFlight = {}
    /\ driverPc = "Done" => \A t \in 1..Len(tierRuns) : ~FailedRun(tierRuns[t])


\* runTests() saves the result of a tier inside `if (results)`, after the
\* body was parsed and printed: nothing is saved for a tier whose invocation
\* gave null, and nothing once runTests() was rejected.
StdSaved(run) == ~invokeThrows(run.response) /\ ~stdTierRejects(run.response)

\* The invocation of the tier was rejected or had a status other than 200.
StdInvocationFailed(run) == run.response.kind \in {"throws", "status"}

\* What the standard driver does about failures short of ending early: the
\* tiers are invoked in list order, nothing is saved for a tier whose
\* invocation failed and the next tier is still invoked, and the tiers carry
\* the baseline fields unless the calibration was skipped or gave no baseline.
StdFailuresAreSkipped ==
  /\ \A t \in 1..Len(tierRuns) :
       /\ tierRuns[t].memorySize = memorySizes[t]
       /\ StdInvocationFailed(tierRuns[t]) => ~StdSaved(tierRuns[t])
       /\ (tierRuns[t].payload.baselineIterationTimeMs = None
             /\ tierRuns[t].payload.baselineCpuTimePerIterationMs = None)
            <=> (skipCalibration \/ calibrationData = None)
  /\ Len(tierRuns) > 0 /\ StdInvocationFailed(tierRuns[Len(tierRuns)])
       => driverPc \in {"Settling", "Tiers", "InTier", "Done"}
  /\ driverPc = "Done" => Len(tierRuns) = Len(memorySizes)

\* C30: in the standard driver a failed tier (thrown error or status other
\* than 200) or a failed calibration never stops the sequence: no result is
\* saved for the failed tier, every remaining tier is invoked in list order,
\* the tiers run without baseline fields exactly when the calibration was
\* skipped or gave no baseline, and the driver always gets to 'All tests
\* completed', never ending before it.
C30_StandardDriverAlwaysCompletes ==
  driverKind = "standard" => StdFailuresAreSkipped /\ driverPc # "Exited"

\* The standard driver went through all five tiers, some of them failed, and
\* printed 'All tests completed'.
StdCompletedDespiteFailures ==
  /\ driverKind = "standard"
  /\ driverPc = "Done"
  /\ \E t \in 1..Len(tierRuns) : StdInvocationFailed(tierRuns[t])

====
